---------------------------- MODULE Spec2Model ----------------------------
(***************************************************************************)
(* Verification model of brett's mail ingestion pipeline:                  *)
(*   brett/core/email_parser.py          (parse_raw_email and helpers)     *)
(*   brett/core/management/commands/review_emails.py  (the review driver)  *)
(*   brett/core/views.py                 (the views that import a mail)    *)
(*                                                                         *)
(* A text is a sequence of lines (the text split at "\n").  A line is a    *)
(* record [k, name, val, n]: k is the kind of line, name the header name   *)
(* (or the boundary of a delimiter line), val the line's content as a      *)
(* sequence of atoms (short strings), n an explicit length for long        *)
(* payload lines (0: the length is that of the atoms).                     *)
(*                                                                         *)
(* A function of the source is a chain of operators, each computing one    *)
(* value of the function and handing it to the next as a parameter, in     *)
(* the order of the source's statements.                                   *)
(***************************************************************************)
EXTENDS Integers, Sequences, FiniteSets, TLC

VARIABLES
    raw,        \* the input text: the function's argument, or the file as read
    ppc,        \* position of the harness of the pure functions
    content,    \* the text after unwrap_pgp_mime (in a review run: the file's content)
    status,     \* the status unwrap_pgp_mime returned
    parsed,     \* what parse_raw_email returned (or that it raised)
    returncodes, \* the exit codes of the calls of gpg for the text
    \* ---- a review run (Command.handle) ----
    pc,         \* position of the run
    dir,        \* the files of the directory, in the order iterdir lists them
    store,      \* the message_ids the Entry table holds
    files,      \* the files sorted by date, as indices into dir
    pos,        \* how many of files the loop has taken
    message_id, \* the current file's Message-ID, trimmed
    already_imported,
    no_message_id,
    copied,
    summary,    \* the counts the run prints at its end
    outcome,    \* history: how each file's step ended
    log,        \* history: the files read, the store queries, the calls of gpg, the hand-offs
    \* ---- the import views (views.py) ----
    db,         \* the tables: the board, its columns, the cards, entries and correspondents
    session,    \* request.session: parsed_email and last_used_column_id
    response,   \* the last request and the answer it got
    requests,   \* the confirm requests in flight: each one's position and locals
    \* ---- the loop of strip_large_attachments ----
    message     \* msg, the message object the loop works on

parseVars == <<raw, ppc, content, status, parsed, returncodes>>

reviewVars ==
    <<pc, dir, store, files, pos, message_id, already_imported, no_message_id, copied,
      summary, outcome, log>>

importVars == <<db, session, response, requests>>

stripVars == <<message>>

vars == <<parseVars, reviewVars, importVars, stripVars>>

\* ------------------------------------------------------------------ lines

Hdr(name, val) == [k |-> "hdr", name |-> name, val |-> val, n |-> 0]
Cont(val) == [k |-> "cont", name |-> "", val |-> val, n |-> 0]
Blank == [k |-> "blank", name |-> "", val |-> <<>>, n |-> 0]
Text(val) == [k |-> "text", name |-> "", val |-> val, n |-> 0]
Delim(b) == [k |-> "delim", name |-> b, val |-> <<>>, n |-> 0]
Close(b) == [k |-> "close", name |-> b, val |-> <<>>, n |-> 0]
\* the lines of an armored block
ArmorBegin == [k |-> "begin", name |-> "", val |-> <<"-----BEGIN PGP MESSAGE-----">>, n |-> 0]
ArmorEnd == [k |-> "end", name |-> "", val |-> <<"-----END PGP MESSAGE-----">>, n |-> 0]
ArmorData(id) == [k |-> "data", name |-> "", val |-> <<id>>, n |-> 0]

RECURSIVE SumLen(_)
SumLen(atoms) ==
    IF atoms = <<>> THEN 0 ELSE Len(Head(atoms)) + SumLen(Tail(atoms))

RECURSIVE Concat(_)
Concat(seqs) ==
    IF seqs = <<>> THEN <<>> ELSE Head(seqs) \o Concat(Tail(seqs))

\* str.lower() on the header names and content types of the alphabet
Lower(s) ==
    CASE s = "Content-Type" -> "content-type"
      [] s = "CONTENT-TYPE" -> "content-type"
      [] s = "Content-Transfer-Encoding" -> "content-transfer-encoding"
      [] s = "Content-Disposition" -> "content-disposition"
      [] s = "CONTENT-DISPOSITION" -> "content-disposition"
      [] s = "X-Mailer" -> "x-mailer"
      [] s = "MIME-Version" -> "mime-version"
      [] s = "Subject" -> "subject"
      [] s = "From" -> "from"
      [] s = "Date" -> "date"
      [] s = "Message-ID" -> "message-id"
      [] s = "Message-Id" -> "message-id"
      [] s = "Received" -> "received"
      [] s = "In-Reply-To" -> "in-reply-to"
      [] s = "References" -> "references"
      [] s = "Multipart/Encrypted" -> "multipart/encrypted"
      [] s = "Quoted-Printable" -> "quoted-printable"
      [] s = "UTF-8" -> "utf-8"
      [] OTHER -> s

IsSpace(a) == a \in {" ", "\t", "\n"}

\* str.strip() on a sequence of atoms
RECURSIVE LStrip(_)
LStrip(atoms) ==
    IF atoms # <<>> /\ IsSpace(Head(atoms)) THEN LStrip(Tail(atoms)) ELSE atoms

RECURSIVE RStrip(_)
RStrip(atoms) ==
    IF atoms # <<>> /\ IsSpace(atoms[Len(atoms)])
    THEN RStrip(SubSeq(atoms, 1, Len(atoms) - 1))
    ELSE atoms

Strip(atoms) == RStrip(LStrip(atoms))

\* str.strip() on a text: an empty line at either end is white space
RECURSIVE LStripLines(_)
LStripLines(ls) ==
    IF ls # <<>> /\ Head(ls).k = "blank" THEN LStripLines(Tail(ls)) ELSE ls

RECURSIVE RStripLines(_)
RStripLines(ls) ==
    IF ls # <<>> /\ ls[Len(ls)].k = "blank"
    THEN RStripLines(SubSeq(ls, 1, Len(ls) - 1))
    ELSE ls

StripLines(ls) == RStripLines(LStripLines(ls))

\* the empty string, as a text
IsEmptyText(ls) == ls = <<>> \/ ls = <<Blank>>

\* ------------------------------------------ email.message_from_string

\* The header block the library reads: the leading header and continuation lines.
RECURSIVE HeaderBlockLen(_)
HeaderBlockLen(ls) ==
    IF ls = <<>> \/ Head(ls).k \notin {"hdr", "cont"}
    THEN 0
    ELSE 1 + HeaderBlockLen(Tail(ls))

\* Headers as (name, value) pairs; a folded header's value keeps its folds.
RECURSIVE MergeInto(_, _)
MergeInto(acc, block) ==
    IF block = <<>> THEN acc
    ELSE IF Head(block).k = "cont" /\ acc # <<>>
         THEN MergeInto([acc EXCEPT ![Len(acc)].val = @ \o <<"\n">> \o Head(block).val],
                        Tail(block))
         ELSE MergeInto(Append(acc, [name |-> Head(block).name, val |-> Head(block).val]),
                        Tail(block))

MergeHeaders(block) == MergeInto(<<>>, block)

Vals(hit) == [i \in 1..Len(hit) |-> hit[i].val]

\* Message.get_all(name): the values of the headers of that name, in order
GetAll(hdrs, lname) == Vals(SelectSeq(hdrs, LAMBDA h : Lower(h.name) = lname))

FirstOf(vs) == IF vs = <<>> THEN <<>> ELSE vs[1]

\* Message.get(name, ""): the first such header's value
GetHeader(hdrs, lname) == FirstOf(GetAll(hdrs, lname))

TypeOfValue(v) == IF v = <<>> THEN "text/plain" ELSE Lower(Head(v))

\* Message.get_content_type()
ContentTypeOf(hdrs) == TypeOfValue(GetHeader(hdrs, "content-type"))

IsMultipartType(t) ==
    t \in {"multipart/encrypted", "multipart/mixed", "multipart/alternative"}

\* the boundary parameter an atom of a Content-Type value states
BoundaryParam(a) ==
    CASE a = "boundary=outer" -> "outer"
      [] a = "boundary=inner" -> "inner"
      [] OTHER -> ""

CharsetParam(a) ==
    CASE a = "charset=UTF-8" -> "utf-8"
      [] a = "charset=iso-8859-1" -> "iso-8859-1"
      [] a = "charset=x-unknown" -> "x-unknown"
      [] OTHER -> ""

FirstBoundaryParam(hit) == IF hit = <<>> THEN "" ELSE BoundaryParam(Head(hit))

\* Message.get_boundary()
BoundaryOf(hdrs) ==
    FirstBoundaryParam(SelectSeq(GetHeader(hdrs, "content-type"),
                                 LAMBDA a : BoundaryParam(a) # ""))

FirstCharsetParam(hit) == IF hit = <<>> THEN "utf-8" ELSE CharsetParam(Head(hit))

\* Message.get_content_charset() or "utf-8"
CharsetOf(hdrs) ==
    FirstCharsetParam(SelectSeq(GetHeader(hdrs, "content-type"),
                                LAMBDA a : CharsetParam(a) # ""))

FirstLower(v) == IF v = <<>> THEN "" ELSE Lower(Head(v))

\* Content-Transfer-Encoding, trimmed and lowered
CteOf(hdrs) == FirstLower(Strip(GetHeader(hdrs, "content-transfer-encoding")))

IsBoundaryLine(l, b) == l.k \in {"delim", "close"} /\ l.name = b

RECURSIVE FirstBoundary(_, _, _)
FirstBoundary(ls, b, i) ==
    IF i > Len(ls) THEN 0
    ELSE IF IsBoundaryLine(ls[i], b) THEN i
    ELSE FirstBoundary(ls, b, i + 1)

\* The parts between the delimiter lines, from line i on, cur being the part read so far.
RECURSIVE SplitFrom(_, _, _, _)
SplitFrom(ls, b, i, cur) ==
    IF i > Len(ls) THEN <<cur>>
    ELSE IF IsBoundaryLine(ls[i], b)
         THEN IF ls[i].k = "close" THEN <<cur>>
              ELSE <<cur>> \o SplitFrom(ls, b, i + 1, <<>>)
         ELSE SplitFrom(ls, b, i + 1, Append(cur, ls[i]))

RECURSIVE ParseMessage(_)

Children(segs) == [i \in 1..Len(segs) |-> ParseMessage(segs[i])]

\* a part: multipart when a first delimiter line of its boundary is found
ParseSplit(hdrs, head, body, ct, b, first) ==
    IF first > 0 /\ body[first].k = "delim"
    THEN [hdrs |-> hdrs, head |-> head, ctype |-> ct, multi |-> TRUE, boundary |-> b,
          parts |-> Children(SplitFrom(body, b, first + 1, <<>>)),
          payload |-> <<>>]
    ELSE [hdrs |-> hdrs, head |-> head, ctype |-> ct, multi |-> FALSE, boundary |-> b,
          parts |-> <<>>,
          payload |-> IF first > 0 THEN SubSeq(body, 1, first - 1) ELSE body]

ParseTyped(hdrs, head, body, ct, b) ==
    ParseSplit(hdrs, head, body, ct, b,
               IF IsMultipartType(ct) /\ b # "" THEN FirstBoundary(body, b, 1) ELSE 0)

ParseHeaders(hdrs, head, body) ==
    ParseTyped(hdrs, head, body, ContentTypeOf(hdrs), BoundaryOf(hdrs))

\* the header block ends at an empty line (dropped) or at the first line that is no header
ParseAt(ls, h) ==
    ParseHeaders(MergeHeaders(SubSeq(ls, 1, h)), SubSeq(ls, 1, h),
                 SubSeq(ls, IF h < Len(ls) /\ ls[h + 1].k = "blank" THEN h + 2 ELSE h + 1,
                        Len(ls)))

\* email.message_from_string: the tree of parts of a text
ParseMessage(ls) == ParseAt(ls, HeaderBlockLen(ls))

\* Message.walk(): the part, then each child's subtree, in order
RECURSIVE Walk(_)
Walk(m) ==
    <<m>> \o Concat([i \in 1..Len(m.parts) |-> Walk(m.parts[i])])

\* ------------------------------------------------- email_parser.py

\* The RFC 2047 encoded-words of the alphabet: charset and encoded bytes.
IsEncodedWord(a) ==
    a \in {"=?utf-8?Q?Hi?=", "=?utf-8?Q?...?=", "=?x-unknown?Q?Hi?=",
           "=?utf-8?B?a?=", "=?utf-8?Q?=FF?="}

WordCharset(a) == IF a = "=?x-unknown?Q?Hi?=" THEN "x-unknown" ELSE "utf-8"

WordBytes(a) ==
    CASE a = "=?utf-8?Q?...?=" -> <<".", ".", ".">>
      [] a = "=?utf-8?Q?=FF?=" -> <<"\\xFF">>
      [] OTHER -> <<"Hi">>

\* a base64 word whose length no padding repairs
WordMalformed(a) == a = "=?utf-8?B?a?="

KnownCharset(cs) == cs \in {"utf-8", "iso-8859-1", "us-ascii"}

\* bytes.decode(cs, errors="replace"): an invalid byte becomes U+FFFD
DecodeAtom(a, cs) ==
    IF a = "\\xFF" THEN (IF cs = "iso-8859-1" THEN "y-diaeresis" ELSE "U+FFFD") ELSE a

DecodeBytes(atoms, cs) == [i \in 1..Len(atoms) |-> DecodeAtom(atoms[i], cs)]

\* white space between two encoded-words
Between(v, idx, i) ==
    /\ IsSpace(v[i])
    /\ \E a \in idx : a < i /\ \A j \in a + 1..i : IsSpace(v[j])
    /\ \E b \in idx : b > i /\ \A j \in i..b - 1 : IsSpace(v[j])

HeaderPart(v, idx, i) ==
    IF i \in idx
    THEN <<[bytes |-> TRUE, txt |-> WordBytes(v[i]), cs |-> WordCharset(v[i])]>>
    ELSE IF Between(v, idx, i) THEN <<>>
    ELSE <<[bytes |-> TRUE, txt |-> <<v[i]>>, cs |-> ""]>>

HeaderParts(v, idx) ==
    IF idx = {}
    THEN [ok |-> TRUE, exc |-> "", parts |-> <<[bytes |-> FALSE, txt |-> v, cs |-> ""]>>]
    ELSE IF \E i \in idx : WordMalformed(v[i])
    THEN [ok |-> FALSE, exc |-> "HeaderParseError", parts |-> <<>>]
    ELSE [ok |-> TRUE, exc |-> "", parts |-> Concat([i \in 1..Len(v) |-> HeaderPart(v, idx, i)])]

\* email.header.decode_header: the (part, charset) pairs of a header value;
\* white space between two encoded-words is dropped
DecodeHeaderLib(v) == HeaderParts(v, {i \in 1..Len(v) : IsEncodedWord(v[i])})

Raised(e) == [ok |-> FALSE, exc |-> e, txt |-> <<>>]
Returned(t) == [ok |-> TRUE, exc |-> "", txt |-> t]

PartCharset(p) == IF p.cs = "" THEN "utf-8" ELSE p.cs

\* part.decode(charset or "utf-8", errors="replace") if it is bytes
DecodePart(p) == IF p.bytes THEN DecodeBytes(p.txt, PartCharset(p)) ELSE p.txt

DecodeParts(lib) ==
    IF ~lib.ok THEN Raised(lib.exc)
    ELSE IF \E i \in 1..Len(lib.parts) :
                lib.parts[i].bytes /\ ~KnownCharset(PartCharset(lib.parts[i]))
    THEN Raised("LookupError")
    ELSE Returned(Concat([i \in 1..Len(lib.parts) |-> DecodePart(lib.parts[i])]))

\* _decode_rfc2047: nothing catches what decode_header or bytes.decode raise
DecodeRfc2047(v) == DecodeParts(DecodeHeaderLib(v))

RECURSIVE SkipRe(_)
SkipRe(atoms) ==
    IF atoms # <<>> /\ Head(atoms) = "Re:" THEN SkipRe(LStrip(Tail(atoms))) ELSE atoms

AllDots(dots) == Len(dots) >= 2 /\ \A i \in 1..Len(dots) : dots[i] = "."

PlaceholderStripped(stripped) == stripped = <<>> \/ AllDots(SkipRe(stripped))

\* _is_placeholder_subject: blank, or ^(Re:\s*)*\.{2,}$
IsPlaceholderSubject(subject) == PlaceholderStripped(Strip(subject))

\* protected-headers="?v\d+"?
IsMarker(a) ==
    a \in {"protected-headers=\"v1\"", "protected-headers=v1", "protected-headers=v12"}

HasMarker(l) == \E i \in 1..Len(l.val) : IsMarker(l.val[i])

RECURSIVE FirstMarkerLine(_, _)
FirstMarkerLine(ls, i) ==
    IF i > Len(ls) THEN 0
    ELSE IF HasMarker(ls[i]) THEN i
    ELSE FirstMarkerLine(ls, i + 1)

\* the folded continuation lines that follow a Subject: line
RECURSIVE Continuations(_, _)
Continuations(ls, i) ==
    IF i <= Len(ls) /\ ls[i].k = "cont"
    THEN <<" ">> \o Strip(ls[i].val) \o Continuations(ls, i + 1)
    ELSE <<>>

\* line.strip() is empty: an empty line, or one of white space
IsBlankLine(l) == l.k = "blank" \/ (l.k = "cont" /\ Strip(l.val) = <<>>)

\* line.strip().startswith("Subject:"): a Subject header line, or an indented
\* line whose text begins with Subject:
IsSubjectLine(l) ==
    \/ l.k = "hdr" /\ l.name = "Subject"
    \/ l.k = "cont" /\ Strip(l.val) # <<>> /\ Head(Strip(l.val)) = "Subject:"

\* stripped[len("Subject:"):].strip()
SubjectValue(l) == IF l.k = "hdr" THEN Strip(l.val) ELSE Strip(Tail(Strip(l.val)))

\* the loop over the lines that follow the marker's line
RECURSIVE ScanSubject(_, _)
ScanSubject(ls, i) ==
    IF i > Len(ls) THEN 0
    ELSE IF IsBlankLine(ls[i]) THEN 0
    ELSE IF IsSubjectLine(ls[i]) THEN i
    ELSE ScanSubject(ls, i + 1)

NotFound == [ok |-> TRUE, exc |-> "", found |-> FALSE, txt |-> <<>>]

Recovered(d) == [ok |-> d.ok, exc |-> d.exc, found |-> d.ok, txt |-> d.txt]

ExtractAt(ls, s) ==
    IF s = 0 THEN NotFound
    ELSE Recovered(DecodeRfc2047(SubjectValue(ls[s]) \o Continuations(ls, s + 1)))

ExtractAfter(ls, m) ==
    ExtractAt(ls, IF m = 0 \/ m = Len(ls) THEN 0 ELSE ScanSubject(ls, m + 1))

\* _extract_protected_subject
ExtractProtectedSubject(ls) == ExtractAfter(ls, FirstMarkerLine(ls, 1))

\* Message.get_payload(decode=True) of a leaf: a line in quoted-printable or
\* base64 form (kind "qp", "b64") becomes the bytes it encodes
DecodeCte(ls, cte) ==
    [i \in 1..Len(ls) |->
        IF (cte = "quoted-printable" /\ ls[i].k = "qp") \/ (cte = "base64" /\ ls[i].k = "b64")
        THEN [ls[i] EXCEPT !.k = "text"]
        ELSE ls[i]]

DecodeLines(ls, cs) == [i \in 1..Len(ls) |-> [ls[i] EXCEPT !.val = DecodeBytes(@, cs)]]

DecodeWith(part, cte, cs) ==
    IF part.multi THEN Returned(<<>>)
    ELSE IF cte \in {"quoted-printable", "base64"}
    THEN IF KnownCharset(cs)
         THEN Returned(DecodeLines(DecodeCte(part.payload, cte), cs))
         ELSE Raised("LookupError")
    ELSE Returned(part.payload)

\* _decode_payload
DecodePayload(part) == DecodeWith(part, CteOf(part.hdrs), CharsetOf(part.hdrs))

NoBody == [found |-> FALSE, raised |-> FALSE, txt |-> <<>>]

RECURSIVE FirstInnerBody(_, _)

\* the text/plain part's decoded payload d: returned when it is not blank;
\* what it raises ends the walk of this inner message
InnerBodyOr(parts, i, d) ==
    IF ~d.ok THEN [found |-> FALSE, raised |-> TRUE, txt |-> <<>>]
    ELSE IF StripLines(d.txt) # <<>> THEN [found |-> TRUE, raised |-> FALSE, txt |-> d.txt]
    ELSE FirstInnerBody(parts, i + 1)

\* for inner_part in inner_msg.walk(): the first text/plain part with a non-blank body
FirstInnerBody(parts, i) ==
    IF i > Len(parts) THEN NoBody
    ELSE IF parts[i].ctype = "text/plain" THEN InnerBodyOr(parts, i, DecodePayload(parts[i]))
    ELSE FirstInnerBody(parts, i + 1)

\* email.message_from_string(payload).walk(), searched for the body
InnerOf(ls) == FirstInnerBody(Walk(ParseMessage(ls)), 1)

\* the payloads tried for one part: the string payload if it is not blank,
\* then the transfer-decoded bytes if there are any
PartCandidates(part, cte) ==
    (IF StripLines(part.payload) # <<>> THEN <<part.payload>> ELSE <<>>)
    \o (IF ~IsEmptyText(DecodeCte(part.payload, cte))
        THEN <<DecodeCte(part.payload, cte)>> ELSE <<>>)

OctetCandidates(part) ==
    IF part.ctype = "application/octet-stream" /\ ~part.multi
    THEN PartCandidates(part, CteOf(part.hdrs))
    ELSE <<>>

\* every payload the loop of _extract_body_from_pgp_payload may try, in order
PgpCandidates(parts) == Concat([i \in 1..Len(parts) |-> OctetCandidates(parts[i])])

RECURSIVE FirstFound(_, _)

FoundOr(texts, i, inner) ==
    IF inner.found THEN inner.txt ELSE FirstFound(texts, i + 1)

FirstFound(texts, i) ==
    IF i > Len(texts) THEN <<>> ELSE FoundOr(texts, i, InnerOf(texts[i]))

\* _extract_body_from_pgp_payload(msg) or ""
ExtractBodyFromPgpPayload(msg) == FirstFound(PgpCandidates(Walk(msg)), 1)

RECURSIVE FirstPlainBody(_, _)

\* body = _decode_payload(part); break -- except Exception: continue
PlainOr(parts, i, d) == IF d.ok THEN d.txt ELSE FirstPlainBody(parts, i + 1)

FirstPlainBody(parts, i) ==
    IF i > Len(parts) THEN <<>>
    ELSE IF parts[i].ctype = "text/plain" THEN PlainOr(parts, i, DecodePayload(parts[i]))
    ELSE FirstPlainBody(parts, i + 1)

MultipartBody(msg, plain) ==
    IF IsEmptyText(plain) /\ msg.ctype = "multipart/encrypted"
    THEN ExtractBodyFromPgpPayload(msg)
    ELSE plain

\* except Exception: body = msg.get_payload()
LeafBody(msg, d) == IF d.ok THEN d.txt ELSE msg.payload

\* the body of parse_raw_email: body.strip() if body else ""
ExtractBody(msg) ==
    StripLines(IF msg.multi
               THEN MultipartBody(msg, FirstPlainBody(Walk(msg), 1))
               ELSE LeafBody(msg, DecodePayload(msg)))

\* the address an atom in angle brackets holds
AngleAddr(a) ==
    CASE a = "<alice@example.com>" -> "alice@example.com"
      [] a = "<bob@example.com>" -> "bob@example.com"
      [] OTHER -> ""

\* email.utils.parseaddr on a From value: display name and address
ParseAddr(v) ==
    IF v = <<>> THEN [name |-> <<>>, addr |-> ""]
    ELSE IF AngleAddr(v[Len(v)]) # ""
    THEN [name |-> Strip(SubSeq(v, 1, Len(v) - 1)), addr |-> AngleAddr(v[Len(v)])]
    ELSE [name |-> <<>>, addr |-> v[1]]

\* a maximum that keeps the last of the longest
RECURSIVE LongestLast(_, _, _)
LongestLast(subjects, i, best) ==
    IF i > Len(subjects) THEN best
    ELSE LongestLast(subjects, i + 1,
                     IF SumLen(subjects[i]) >= SumLen(best) THEN subjects[i] ELSE best)

\* max(subjects, key=len): the first of the longest
RECURSIVE LongestFrom(_, _, _)
LongestFrom(subjects, i, best) ==
    IF i > Len(subjects) THEN best
    ELSE LongestFrom(subjects, i + 1,
                     IF SumLen(subjects[i]) > SumLen(best) THEN subjects[i] ELSE best)

SelectSubject(subjects) ==
    IF Len(subjects) > 1 THEN LongestFrom(subjects, 2, subjects[1]) ELSE subjects[1]

DecodeSelected(subjects) ==
    IF subjects = <<>> THEN Returned(<<>>) ELSE DecodeRfc2047(SelectSubject(subjects))

\* the subject before the placeholder check
SelectedSubject(msg) == DecodeSelected(GetAll(msg.hdrs, "subject"))

\* if protected_subject: subject = protected_subject
Override(subject, p) ==
    IF ~p.ok THEN Raised(p.exc)
    ELSE IF p.found /\ p.txt # <<>> THEN Returned(p.txt)
    ELSE Returned(subject)

\* a placeholder check that lets every recovered subject through
ResolveAlways(subject, ls) == Override(subject, ExtractProtectedSubject(ls))

\* the placeholder check of parse_raw_email
ResolveSubject(subject, ls) ==
    IF IsPlaceholderSubject(subject)
    THEN Override(subject, ExtractProtectedSubject(ls))
    ELSE Returned(subject)

\* the date and time a Date value states, in hours since the start of 2024;
\* 0 for a value the library does not read as a date
LocalHours(a) ==
    CASE a = "1 Jan 2024 10:00:00" -> 34
      [] a = "1 Jan 2024 11:00:00" -> 35
      [] a = "2 Jan 2024 10:00:00" -> 58
      [] a = "3 Jan 2024 10:00:00" -> 82
      [] a = "32 Jan 2024 10:00:00" -> 778
      [] OTHER -> 0

\* the zone a Date value states: -0000 and a missing zone are no zone
ZoneOffset(a) ==
    CASE a = "+0000" -> [zone |-> TRUE, hours |-> 0]
      [] a = "+0100" -> [zone |-> TRUE, hours |-> 1]
      [] a = "+0200" -> [zone |-> TRUE, hours |-> 2]
      [] OTHER -> [zone |-> FALSE, hours |-> 0]

\* email.utils._parsedate_tz: the fields of a Date value, or None (ok FALSE);
\* valid tells whether datetime() accepts the fields
ParsedateTz(v) ==
    IF v = <<>> \/ LocalHours(v[1]) = 0
    THEN [ok |-> FALSE, valid |-> FALSE, zone |-> FALSE, local |-> 0, offset |-> 0]
    ELSE [ok |-> TRUE, valid |-> v[1] # "32 Jan 2024 10:00:00",
          zone |-> ZoneOffset(v[Len(v)]).zone,
          local |-> LocalHours(v[1]),
          offset |-> ZoneOffset(v[Len(v)]).hours]

NoDate == [known |-> FALSE, aware |-> FALSE, local |-> 0, offset |-> 0]

\* parsedate_to_datetime: raises ValueError, or returns a datetime that is
\* naive when the value states no zone
DatetimeOf(f) ==
    IF ~f.ok \/ ~f.valid THEN [raised |-> TRUE, dt |-> NoDate]
    ELSE [raised |-> FALSE,
          dt |-> [known |-> TRUE, aware |-> f.zone, local |-> f.local, offset |-> f.offset]]

ParsedateToDatetime(v) == DatetimeOf(ParsedateTz(v))

\* the fallback: datetime(*parsedate(date_str)[:6]), made UTC; absent when
\* parsedate returns None or datetime() raises
FallbackDate(f) ==
    IF f.ok /\ f.valid
    THEN [known |-> TRUE, aware |-> TRUE, local |-> f.local, offset |-> 0]
    ELSE NoDate

PrimaryOr(v, p) == IF p.raised THEN FallbackDate(ParsedateTz(v)) ELSE p.dt

\* the date of parse_raw_email: None without a Date header, else the primary
\* parse and, if it raises, the fallback
ParseDate(v) == IF v = <<>> THEN NoDate ELSE PrimaryOr(v, ParsedateToDatetime(v))

NotCalled == [ok |-> FALSE, exc |-> "not-called"]

Failed(e) == [ok |-> FALSE, exc |-> e]

ParseResolved(ls, msg, addr, name, res) ==
    IF ~res.ok THEN Failed(res.exc)
    ELSE [ok |-> TRUE, exc |-> "",
          from_addr |-> addr,
          from_name |-> name,
          subject |-> res.txt,
          message_id |-> GetHeader(msg.hdrs, "message-id"),
          date |-> ParseDate(GetHeader(msg.hdrs, "date")),
          in_reply_to |-> GetHeader(msg.hdrs, "in-reply-to"),
          body |-> ExtractBody(msg),
          raw_message |-> ls]

ParseSubject(ls, msg, addr, name, subj) ==
    IF ~subj.ok THEN Failed(subj.exc)
    ELSE ParseResolved(ls, msg, addr, name, ResolveSubject(subj.txt, ls))

ParseNamed(ls, msg, addr, name) ==
    IF ~name.ok THEN Failed(name.exc)
    ELSE ParseSubject(ls, msg, addr, name.txt, SelectedSubject(msg))

ParseFrom(ls, msg, pa) ==
    ParseNamed(ls, msg, pa.addr,
               IF pa.name # <<>> THEN DecodeRfc2047(pa.name) ELSE Returned(<<>>))

ParseParsed(ls, msg) == ParseFrom(ls, msg, ParseAddr(GetHeader(msg.hdrs, "from")))

\* parse_raw_email: the returned dictionary, or the exception it raises
ParseRawEmail(ls) == ParseParsed(ls, ParseMessage(ls))

\* ------------------------------------- review_emails.py: unwrap_pgp_mime

\* content.find("\n\n"): the first empty line that ends a line and is followed
\* by another; 0 when there is none
RECURSIVE FindHeaderEnd(_, _)
FindHeaderEnd(ls, j) ==
    IF j >= Len(ls) THEN 0
    ELSE IF ls[j].k = "blank" THEN j
    ELSE FindHeaderEnd(ls, j + 1)

\* a comparison of the name as it is spelled
IsContentHeaderAsSpelled(name) ==
    name \in {"Content-Type", "Content-Transfer-Encoding", "Content-Disposition"}

\* line.split(":")[0].strip().lower() in (...)
IsContentHeader(name) ==
    Lower(name) \in {"content-type", "content-transfer-encoding", "content-disposition"}

\* a filter that keeps every header line
FilterNothing(block, skip) == block

\* the loop that drops the MIME content headers and their continuation lines
RECURSIVE FilterHeaders(_, _)
FilterHeaders(block, skip) ==
    IF block = <<>> THEN <<>>
    ELSE IF Head(block).k = "cont"
    THEN (IF skip THEN <<>> ELSE <<Head(block)>>) \o FilterHeaders(Tail(block), skip)
    ELSE IF Head(block).k = "hdr" /\ IsContentHeader(Head(block).name)
    THEN FilterHeaders(Tail(block), TRUE)
    ELSE <<Head(block)>> \o FilterHeaders(Tail(block), FALSE)

\* "\n".join(filtered_lines): joining no line gives the empty string
JoinLines(lines) == IF lines = <<>> THEN <<Blank>> ELSE lines

IsDecryptedPart(p) ==
    p.ctype = "application/octet-stream" /\ ~p.multi /\ StripLines(p.payload) # <<>>

\* startswith("Content-Type:") or startswith("MIME-Version:")
StartsWithMime(stripped) ==
    Head(stripped).k = "hdr" /\ Head(stripped).name \in {"Content-Type", "MIME-Version"}

SynthContentType == Hdr("Content-Type", <<"text/plain", ";", " ", "charset=UTF-8">>)

\* a splice that takes every payload for a MIME message
SpliceDirect(joined, stripped) == joined \o stripped

\* "\n".join(filtered_lines) + "\n" + stripped_payload, with the synthesized
\* header and an empty line between them for a payload that is plain text
Splice(joined, stripped) ==
    IF StartsWithMime(stripped)
    THEN joined \o stripped
    ELSE joined \o <<SynthContentType, Blank>> \o stripped

\* a split that reports a text without an empty line as still encrypted
UnwrapSplitOrEncrypted(ls, stripped, he) ==
    IF he = 0 THEN [content |-> ls, status |-> "encrypted"]
    ELSE [content |-> Splice(JoinLines(FilterHeaders(SubSeq(ls, 1, he - 1), FALSE)), stripped),
          status |-> "unwrapped"]

\* header_end = content.find("\n\n"): without one the content is returned
UnwrapSplit(ls, stripped, he) ==
    IF he = 0 THEN [content |-> ls, status |-> "unwrapped"]
    ELSE [content |-> Splice(JoinLines(FilterHeaders(SubSeq(ls, 1, he - 1), FALSE)), stripped),
          status |-> "unwrapped"]

UnwrapPayload(ls, stripped) ==
    IF Head(stripped).k = "begin" THEN [content |-> ls, status |-> "encrypted"]
    ELSE UnwrapSplit(ls, stripped, FindHeaderEnd(ls, 2))

\* an unwrap that looks at the payload as it is, untrimmed
UnwrapFoundUntrimmed(ls, found) ==
    IF found = <<>> THEN [content |-> ls, status |-> "encrypted"]
    ELSE UnwrapPayload(ls, found[1].payload)

UnwrapFound(ls, found) ==
    IF found = <<>> THEN [content |-> ls, status |-> "encrypted"]
    ELSE UnwrapPayload(ls, StripLines(found[1].payload))

UnwrapParsed(ls, msg) ==
    IF msg.ctype # "multipart/encrypted" THEN [content |-> ls, status |-> "none"]
    ELSE UnwrapFound(ls, SelectSeq(Walk(msg), IsDecryptedPart))

\* unwrap_pgp_mime: (content, status), status None written "none"
UnwrapPgpMime(ls) == UnwrapParsed(ls, ParseMessage(ls))

\* ---------------------------------- review_emails.py: decrypt_pgp_blocks

\* the first line from j on that begins with the END marker; 0 when there is none
RECURSIVE FindEnd(_, _)
FindEnd(ls, j) ==
    IF j > Len(ls) THEN 0
    ELSE IF ls[j].k = "end" THEN j
    ELSE FindEnd(ls, j + 1)

RECURSIVE BlocksFrom(_, _)

\* a BEGIN line at i opens a block when an END line e follows it at least two lines on
BlockAt(ls, i, e) ==
    IF e = 0 THEN BlocksFrom(ls, i + 1)
    ELSE <<[from |-> i, to |-> e]>> \o BlocksFrom(ls, e + 1)

\* PGP_BLOCK_RE: the non-overlapping matches, leftmost first, each ending at
\* the first END marker that can close it
BlocksFrom(ls, i) ==
    IF i > Len(ls) THEN <<>>
    ELSE IF ls[i].k = "begin" THEN BlockAt(ls, i, FindEnd(ls, i + 2))
    ELSE BlocksFrom(ls, i + 1)

PgpBlocks(ls) == BlocksFrom(ls, 1)

\* what gpg --decrypt writes to its standard output for the ciphertexts of the alphabet
GpgStdout(block) ==
    CASE \E i \in 1..Len(block) : block[i].val = <<"d1">> ->
            <<Hdr("Content-Type", <<"multipart/mixed", ";", " ", "boundary=inner", ";", " ",
                                    "protected-headers=\"v1\"">>),
              Hdr("Subject", <<"Hi">>),
              Blank,
              Delim("inner"),
              Hdr("Content-Type", <<"text/plain", ";", " ", "charset=UTF-8">>),
              Blank,
              Text(<<"Hello">>),
              Close("inner"),
              Blank>>
      [] \E i \in 1..Len(block) : block[i].val = <<"d2">> -> <<Text(<<"secret">>), Blank>>
      [] OTHER -> <<Blank>>

\* the exit codes gpg may return
ReturnCodes == {0, 1, 2}

\* a decrypt_pgp that takes the output only of a clean exit
DecryptPgpOnZero(block, returncode) ==
    IF returncode = 0 THEN GpgStdout(block) ELSE block

\* decrypt_pgp: the block's plaintext, or the block itself
DecryptPgp(block, returncode) ==
    IF returncode \in {0, 2} THEN GpgStdout(block) ELSE block

\* PGP_BLOCK_RE.sub: rcs[b] is the exit code of the b-th call of gpg
RECURSIVE SubFrom(_, _, _, _, _)
SubFrom(ls, blocks, rcs, b, at) ==
    IF b > Len(blocks) THEN SubSeq(ls, at, Len(ls))
    ELSE SubSeq(ls, at, blocks[b].from - 1)
         \o DecryptPgp(SubSeq(ls, blocks[b].from, blocks[b].to), rcs[b])
         \o SubFrom(ls, blocks, rcs, b + 1, blocks[b].to + 1)

\* decrypt_pgp_blocks
DecryptPgpBlocks(ls, rcs) == SubFrom(ls, PgpBlocks(ls), rcs, 1, 1)

\* ------------------------------ review_emails.py: strip_large_attachments

\* max_size=1_500_000
MaxSize == 1500000

\* len() of a line
LineSize(l) ==
    IF l.n > 0 THEN l.n
    ELSE CASE l.k = "hdr" -> Len(l.name) + (IF l.val = <<>> THEN 1 ELSE 2) + SumLen(l.val)
           [] l.k = "delim" -> 2 + Len(l.name)
           [] l.k = "close" -> 4 + Len(l.name)
           [] OTHER -> SumLen(l.val)

RECURSIVE SumSizes(_)
SumSizes(ls) == IF ls = <<>> THEN 0 ELSE LineSize(Head(ls)) + 1 + SumSizes(Tail(ls))

\* len() of a text: its lines and the newlines between them
TextSize(ls) == IF ls = <<>> THEN 0 ELSE SumSizes(ls) - 1

\* Message.as_string(): the header lines, an empty line, then the payload, or
\* each part behind its delimiter line and the closing delimiter line
RECURSIVE AsString(_)
AsString(m) ==
    m.head \o <<Blank>>
    \o (IF m.multi
        THEN Concat([i \in 1..Len(m.parts) |-> <<Delim(m.boundary)>> \o AsString(m.parts[i])])
             \o <<Close(m.boundary), Blank>>
        ELSE m.payload)

\* the parts of msg.walk() as paths of child indices
RECURSIVE Paths(_)
Paths(m) ==
    <<<<>>>> \o Concat([i \in 1..Len(m.parts) |->
                        [j \in 1..Len(Paths(m.parts[i])) |-> <<i>> \o Paths(m.parts[i])[j]]])

RECURSIVE PartAt(_, _)
PartAt(m, path) == IF path = <<>> THEN m ELSE PartAt(m.parts[Head(path)], Tail(path))

\* a part the loop may replace: a leaf that is neither text/plain nor text/html
Strippable(p) == ~p.multi /\ p.ctype \notin {"text/plain", "text/html"}

\* a walk that takes the last among equally large parts
RECURSIVE LargestLastFrom(_, _, _, _, _)
LargestLastFrom(m, paths, i, best, size) ==
    IF i > Len(paths) THEN [path |-> best, size |-> size]
    ELSE IF Strippable(PartAt(m, paths[i])) /\ TextSize(AsString(PartAt(m, paths[i]))) >= size
    THEN LargestLastFrom(m, paths, i + 1, paths[i], TextSize(AsString(PartAt(m, paths[i]))))
    ELSE LargestLastFrom(m, paths, i + 1, best, size)

\* the largest such part, the first among equals; none when no part has a size above 0
RECURSIVE LargestFrom(_, _, _, _, _)
LargestFrom(m, paths, i, best, size) ==
    IF i > Len(paths) THEN [path |-> best, size |-> size]
    ELSE IF Strippable(PartAt(m, paths[i])) /\ TextSize(AsString(PartAt(m, paths[i]))) > size
    THEN LargestFrom(m, paths, i + 1, paths[i], TextSize(AsString(PartAt(m, paths[i]))))
    ELSE LargestFrom(m, paths, i + 1, best, size)

\* the file name a parameter of Content-Disposition or Content-Type states
FilenameParam(a) ==
    CASE a \in {"filename=\"big.pdf\"", "name=\"big.pdf\""} -> "big.pdf"
      [] a \in {"filename=\"encrypted.asc\"", "name=\"encrypted.asc\""} -> "encrypted.asc"
      [] OTHER -> ""

FirstFilename(hit) == IF hit = <<>> THEN "unnamed" ELSE FilenameParam(Head(hit))

\* largest_part.get_filename() or "unnamed"
FilenameOf(hdrs) ==
    FirstFilename(SelectSeq(GetHeader(hdrs, "content-disposition")
                            \o GetHeader(hdrs, "content-type"),
                            LAMBDA a : FilenameParam(a) # ""))

\* size / 1024 / 1024 in tenths, rounded
Tenths(size) == (size * 10 + 524288) \div 1048576

\* the size as the note states it: MB with one decimal above 1 MiB, else whole KB
SizeStr(size) ==
    IF size > 1024 * 1024
    THEN ToString(Tenths(size) \div 10) \o "." \o ToString(Tenths(size) % 10) \o "MB"
    ELSE ToString((size + 512) \div 1024) \o "KB"

\* set_type("text/plain"): the parameters of the old Content-Type are kept
RetypedValue(v) == IF v = <<>> THEN <<"text/plain">> ELSE <<"text/plain">> \o Tail(v)

KeptHeader(l, skip) ==
    IF l.k = "cont" THEN ~skip
    ELSE Lower(l.name) \notin {"content-transfer-encoding", "content-disposition",
                               "content-id", "content-type", "mime-version"}

\* the header lines that stay: not the deleted headers, nor their continuation lines
RECURSIVE KeepHeaders(_, _)
KeepHeaders(head, skip) ==
    IF head = <<>> THEN <<>>
    ELSE (IF KeptHeader(Head(head), skip) THEN <<Head(head)>> ELSE <<>>)
         \o KeepHeaders(Tail(head),
                        IF Head(head).k = "cont" THEN skip ELSE ~KeptHeader(Head(head), skip))

\* a placeholder that keeps the content type of the part it replaces
PlaceholderKeepsType(p, size) ==
    ParseMessage(KeepHeaders(p.head, FALSE)
                 \o <<Hdr("MIME-Version", <<"1.0">>),
                      Hdr("Content-Type", GetHeader(p.hdrs, "content-type")),
                      Blank,
                      Text(<<"[attachment stripped: ", FilenameOf(p.hdrs), ", ",
                             SizeStr(size), "]">>),
                      Blank>>)

\* the part that replaces a stripped attachment
PlaceholderPart(p, size) ==
    ParseMessage(KeepHeaders(p.head, FALSE)
                 \o <<Hdr("MIME-Version", <<"1.0">>),
                      Hdr("Content-Type", RetypedValue(GetHeader(p.hdrs, "content-type"))),
                      Blank,
                      Text(<<"[attachment stripped: ", FilenameOf(p.hdrs), ", ",
                             SizeStr(size), "]">>),
                      Blank>>)

RECURSIVE ReplaceAt(_, _, _)
ReplaceAt(m, path, new) ==
    IF path = <<>> THEN new
    ELSE [m EXCEPT !.parts[Head(path)] = ReplaceAt(@, Tail(path), new)]

\* a loop body that replaces one part and does not go round again
StripLargestOnce(m, largest) ==
    IF largest.size = 0 THEN m
    ELSE ReplaceAt(m, largest.path,
                   PlaceholderPart(PartAt(m, largest.path), largest.size))

RECURSIVE StripLoop(_)

StripLargest(m, largest) ==
    IF largest.size = 0 THEN m
    ELSE StripLoop(ReplaceAt(m, largest.path,
                             PlaceholderPart(PartAt(m, largest.path), largest.size)))

\* while len(msg.as_string()) > max_size
StripLoop(m) ==
    IF TextSize(AsString(m)) > MaxSize
    THEN StripLargest(m, LargestFrom(m, Paths(m), 1, <<>>, 0))
    ELSE m

\* a strip that does not look at the content type
StripParsedAnyType(ls, msg) == IF ~msg.multi THEN ls ELSE AsString(StripLoop(msg))

StripParsed(ls, msg) ==
    IF ~msg.multi THEN ls
    ELSE IF msg.ctype = "multipart/encrypted" THEN ls
    ELSE AsString(StripLoop(msg))

\* strip_large_attachments with the default max_size
StripLargeAttachments(ls) ==
    IF TextSize(ls) <= MaxSize THEN ls ELSE StripParsed(ls, ParseMessage(ls))

\* ------------------------------------------------------------ the inputs

\* how many Subject headers one message carries at most
MaxSubjects == 2

BodyText == <<Text(<<"Hello">>)>>

PlainContentType == <<"text/plain", ";", " ", "charset=UTF-8">>

DateValue == <<"1 Jan 2024 10:00:00", " ", "+0000">>

\* make_pgp_mime_email of the test suite
PgpMimeEmail(octet, subject, extra) ==
    <<Hdr("From", <<"sender@example.com">>),
      Hdr("Subject", subject),
      Hdr("Date", DateValue),
      Hdr("Message-ID", <<"<test@example.com>">>),
      Hdr("MIME-Version", <<"1.0">>)>>
    \o extra \o
    <<Hdr("Content-Type", <<"multipart/encrypted", ";">>),
      Cont(<<" ", "protocol=\"application/pgp-encrypted\"", ";">>),
      Cont(<<" ", "boundary=outer">>),
      Blank,
      Delim("outer"),
      Hdr("Content-Type", <<"application/pgp-encrypted">>),
      Blank,
      Hdr("Version", <<"1">>),
      Blank,
      Delim("outer"),
      Hdr("Content-Type", <<"application/octet-stream", ";", " ", "name=\"encrypted.asc\"">>),
      Hdr("Content-Disposition", <<"inline", ";", " ", "filename=\"encrypted.asc\"">>),
      Blank>>
    \o octet \o
    <<Close("outer")>>

ReceivedHeader == Hdr("Received", <<"from mx.example.com">>)

\* a decrypted inner message: multipart/mixed carrying the protected Subject
InnerMixed(subject, marker) ==
    <<Hdr("Content-Type",
          <<"multipart/mixed", ";", " ", "boundary=inner">>
          \o (IF marker THEN <<";", " ", "protected-headers=\"v1\"">> ELSE <<>>)),
      Hdr("Subject", subject),
      Blank,
      Delim("inner"),
      Hdr("Content-Type", PlainContentType),
      Blank>>
    \o BodyText \o
    <<Close("inner")>>

\* a decrypted inner message: one text/plain part carrying the protected Subject
InnerPlain(subject, ctname, subjectFirst) ==
    (IF subjectFirst
     THEN <<Hdr("Subject", subject),
            Hdr(ctname, <<"text/plain", ";", " ", "protected-headers=\"v1\"">>)>>
     ELSE <<Hdr(ctname, <<"text/plain", ";", " ", "protected-headers=\"v1\"">>),
            Hdr("Subject", subject)>>)
    \o <<Blank>> \o BodyText

\* a payload gpg did not decrypt
ArmoredBlock == <<ArmorBegin, Blank, ArmorData("d1"), ArmorEnd>>

PlainParagraphs == <<Text(<<"Hello">>), Blank, Text(<<"World">>)>>

Dots == <<".", ".", ".">>

OuterSubjects ==
    {Dots, <<"Re:", " ">> \o Dots, <<"Encrypted Message">>, <<"x">>}

InnerSubjects == {<<"Hi">>, <<"Re:", " ", "Project Update">>}

OctetPayloads ==
    {InnerMixed(s, m) : s \in InnerSubjects, m \in BOOLEAN}
    \cup {InnerPlain(s[1], s[2], f) :
            s \in InnerSubjects \X {"Content-Type", "content-type"}, f \in BOOLEAN}
    \cup {ArmoredBlock, PlainParagraphs, <<Blank>>}

PgpMimeInputs ==
    {PgpMimeEmail(o, s, x) :
        o \in OctetPayloads, s \in OuterSubjects, x \in {<<>>, <<ReceivedHeader>>}}

TransportHeaders ==
    <<Hdr("From", <<"sender@example.com">>),
      Hdr("Date", DateValue),
      Hdr("Message-ID", <<"<test@example.com>">>)>>

\* a multipart/encrypted message without an application/octet-stream part
NoOctetPart ==
    TransportHeaders \o
    <<Hdr("Content-Type", <<"multipart/encrypted", ";", " ", "boundary=outer">>),
      Blank,
      Delim("outer"),
      Hdr("Content-Type", <<"application/pgp-encrypted">>),
      Blank,
      Hdr("Version", <<"1">>),
      Close("outer")>>

\* a multipart/encrypted header without a boundary: the message has no parts
NoBoundary ==
    TransportHeaders \o <<Hdr("Content-Type", <<"multipart/encrypted">>), Blank>> \o ArmoredBlock

\* a multipart/encrypted message in which no line is empty
NoBlankLine ==
    TransportHeaders \o
    <<Hdr("Content-Type", <<"multipart/encrypted", ";", " ", "boundary=outer">>),
      Delim("outer"),
      Hdr("Content-Type", <<"application/octet-stream">>),
      Text(<<"Hello">>),
      Close("outer")>>

\* a multipart/encrypted message whose first empty line is inside its part
LateBlankLine ==
    TransportHeaders \o
    <<Hdr("Content-Type", <<"multipart/encrypted", ";", " ", "boundary=outer">>),
      Delim("outer"),
      Hdr("Content-Type", <<"application/octet-stream">>),
      Blank,
      Text(<<"Hello">>),
      Close("outer")>>

\* a multipart/encrypted message whose only empty line is behind its last part
TrailingBlankLine == NoBlankLine \o <<Blank, Blank>>

\* a decrypted payload that is a multipart/encrypted message itself
InnerEncrypted ==
    <<Hdr("Content-Type", <<"multipart/encrypted", ";", " ", "boundary=inner">>),
      Blank,
      Delim("inner"),
      Hdr("Content-Type", <<"application/octet-stream">>),
      Blank>>
    \o ArmoredBlock \o
    <<Close("inner")>>

\* the content type as some senders spell it
Respelled(ls, type) ==
    [i \in 1..Len(ls) |->
        IF ls[i].k = "hdr" /\ ls[i].val # <<>> /\ ls[i].val[1] = "multipart/encrypted"
        THEN [ls[i] EXCEPT !.val[1] = type]
        ELSE ls[i]]

\* headers some of which are folded, and MIME content headers in other spellings
FoldedHeaders ==
    <<Hdr("Received", <<"from mx.example.com">>),
      Cont(<<"\t", "by mail.example.com">>),
      Hdr("content-transfer-encoding", <<"7bit">>),
      Hdr("CONTENT-DISPOSITION", <<"inline", ";">>),
      Cont(<<" ", "filename=x">>),
      Hdr("X-Mailer", <<"mutt">>),
      Cont(<<" ", "2.2">>)>>

EncryptedShapes ==
    {NoOctetPart, NoBoundary, NoBlankLine, LateBlankLine, TrailingBlankLine,
     PgpMimeEmail(PlainParagraphs, Dots, FoldedHeaders),
     PgpMimeEmail(InnerMixed(<<"Hi">>, TRUE), Dots, FoldedHeaders),
     PgpMimeEmail(<<Blank>> \o InnerPlain(<<"Hi">>, "Content-Type", FALSE) \o <<Blank>>,
                  Dots, <<>>),
     PgpMimeEmail(PlainParagraphs \o <<Blank>>, Dots, <<>>),
     PgpMimeEmail(<<Blank, Blank>> \o ArmoredBlock, Dots, <<>>),
     PgpMimeEmail(InnerEncrypted, Dots, <<>>),
     Respelled(PgpMimeEmail(PlainParagraphs, Dots, <<>>), "Multipart/Encrypted"),
     Respelled(PgpMimeEmail(ArmoredBlock, Dots, <<>>), "Multipart/Encrypted")}

SubjectValues ==
    {Dots,
     <<"Re:", " ">> \o Dots,
     <<"Re:", ".", ".">>,
     <<"Fwd:", " ">> \o Dots,
     <<>>,
     <<"Hello">>,
     <<"Encrypted Message">>,
     <<"=?utf-8?Q?...?=">>,
     <<"=?x-unknown?Q?Hi?=">>,
     <<"=?utf-8?B?a?=">>,
     <<"=?utf-8?Q?Hi?=", " ", "=?utf-8?Q?=FF?=">>}

\* the Subject headers that may follow the first one
ExtraSubjects == {Dots, <<"Encrypted Message">>, <<"Hi">>, <<"World">>}

RECURSIVE ExtraLists(_)
ExtraLists(n) ==
    IF n = 0 THEN {<<>>}
    ELSE ExtraLists(n - 1)
         \cup {Append(l, s) : l \in {x \in ExtraLists(n - 1) : Len(x) = n - 1},
                              s \in ExtraSubjects}

SubjectLists ==
    {<<>>} \cup {<<s>> \o l : s \in SubjectValues, l \in ExtraLists(MaxSubjects - 1)}

FromValues ==
    {<<"alice@example.com">>,
     <<"Alice", " ", "<alice@example.com>">>,
     <<"=?utf-8?Q?Hi?=", " ", "<alice@example.com>">>,
     <<"=?x-unknown?Q?Hi?=", " ", "<bob@example.com>">>}

MarkerHeader(marker) == Hdr("Content-Type", <<"text/plain", ";", " ", marker>>)

\* bodies that quote a protected-headers block, or none
ProtectedBodies ==
    {BodyText,
     <<MarkerHeader("protected-headers=\"v1\""), Hdr("Subject", <<"Real">>), Blank>> \o BodyText,
     <<MarkerHeader("protected-headers=v1"), Hdr("From", <<"bob@example.com">>),
       Hdr("Subject", <<"Real">>), Cont(<<" ", "More">>), Blank>> \o BodyText,
     <<MarkerHeader("protected-headers=\"v1\""), Blank, Hdr("Subject", <<"Real">>)>>,
     <<Text(<<"see">>), MarkerHeader("protected-headers=\"v1\"")>>,
     <<MarkerHeader("protected-headers=\"v1\""), Hdr("Subject", <<>>), Blank>> \o BodyText,
     <<MarkerHeader("protected-headers=\"v1\""), Hdr("Subject", <<"=?x-unknown?Q?Hi?=">>),
       Blank>> \o BodyText,
     <<MarkerHeader("protected-headers=v1"), Hdr("Subject", <<"=?utf-8?Q?Hi?=">>),
       Blank>> \o BodyText,
     <<MarkerHeader("protected-headers=\"v1\""), Hdr("X-Comment", <<"about">>),
       Cont(<<" ", "Subject:", " ", "lines">>), Hdr("Subject", <<"Real">>), Blank>>
       \o BodyText,
     <<MarkerHeader("protected-headers=v1"), Hdr("From", <<"bob@example.com">>),
       Cont(<<" ", "\t">>), Hdr("Subject", <<"Real">>), Blank>> \o BodyText,
     <<MarkerHeader("protected-headers=\"v\""), Hdr("Subject", <<"World">>), Blank,
       MarkerHeader("protected-headers=v12"), Hdr("Subject", <<"Real">>), Cont(<<" ">>),
       Cont(<<"\t", "More">>), Blank>> \o BodyText}

SubjectHeaders(subjects) == [i \in 1..Len(subjects) |-> Hdr("Subject", subjects[i])]

PlainEmail(from, subjects, body) ==
    <<Hdr("From", from)>>
    \o SubjectHeaders(subjects) \o
    <<Hdr("Message-ID", <<"<plain@example.com>">>),
      Hdr("Date", DateValue),
      Blank>>
    \o body

\* a reply within a thread
ThreadEmail ==
    <<Hdr("From", <<"alice@example.com">>),
      Hdr("Subject", <<"Re:", " ", "Project Update">>),
      Hdr("Date", DateValue),
      Hdr("In-Reply-To", <<"<second@example.com>">>),
      Hdr("References", <<"<first@example.com>", " ", "<second@example.com>">>),
      Blank>>
    \o BodyText

\* Date values: with a zone, with -0000, without a zone, with a day no month
\* has, and no date at all
DateValues ==
    {DateValue,
     <<"1 Jan 2024 11:00:00", " ", "+0200">>,
     <<"2 Jan 2024 10:00:00", " ", "+0100">>,
     <<"3 Jan 2024 10:00:00", " ", "-0000">>,
     <<"2 Jan 2024 10:00:00">>,
     <<"32 Jan 2024 10:00:00", " ", "+0000">>,
     <<"yesterday">>}

DateHeaders == {<<>>} \cup {<<Hdr("Date", v)>> : v \in DateValues}

DatedEmail(date) ==
    <<Hdr("From", <<"alice@example.com">>),
      Hdr("Subject", <<"Hello">>),
      Hdr("Message-ID", <<"<dated@example.com>">>)>>
    \o date \o <<Blank>> \o BodyText

PlainInputs ==
    {PlainEmail(f, <<<<"Hello">>>>, BodyText) : f \in FromValues}
    \cup {ThreadEmail}
    \cup {DatedEmail(d) : d \in DateHeaders}
    \cup {PlainEmail(<<"alice@example.com">>, sl, b) :
            sl \in SubjectLists, b \in ProtectedBodies}

QpLine(val) == [k |-> "qp", name |-> "", val |-> val, n |-> 0]
B64Line(val) == [k |-> "b64", name |-> "", val |-> val, n |-> 0]

HtmlPart == <<Hdr("Content-Type", <<"text/html">>), Blank, Text(<<"<p>Hi</p>">>)>>

PdfPart ==
    <<Hdr("Content-Type", <<"application/pdf">>),
      Hdr("Content-Transfer-Encoding", <<"base64">>),
      Blank,
      B64Line(<<"QUJD">>)>>

\* a text/plain part: its charset parameter, its transfer encoding, its payload
PlainPart(charset, cte, body) ==
    <<Hdr("Content-Type", <<"text/plain", ";", " ", charset>>)>>
    \o (IF cte = "" THEN <<>> ELSE <<Hdr("Content-Transfer-Encoding", <<cte>>)>>)
    \o <<Blank>> \o body

\* a multipart entity of the given subtype over the boundary b
Wrapped(type, b, parts) ==
    <<Hdr("Content-Type",
          <<type, ";", " ", IF b = "outer" THEN "boundary=outer" ELSE "boundary=inner">>),
      Blank>>
    \o Concat([i \in 1..Len(parts) |-> <<Delim(b)>> \o parts[i]])
    \o <<Close(b)>>

Charsets == {"charset=UTF-8", "charset=iso-8859-1", "charset=x-unknown"}

\* the payload of a text/plain part in each transfer encoding
EncodedBodies ==
    {<<"", <<Text(<<"Hello">>)>>>>,
     <<"", <<Blank, Text(<<"Hello">>), Blank>>>>,
     <<"quoted-printable", <<QpLine(<<"Gr", "\\xFF">>)>>>>,
     <<"Quoted-Printable", <<QpLine(<<"Gr", "\\xFF">>)>>>>,
     <<"base64", <<B64Line(<<"Hello">>)>>>>}

EncodedParts == {PlainPart(c, e[1], e[2]) : c \in Charsets, e \in EncodedBodies}

SecondPart == PlainPart("charset=UTF-8", "", <<Text(<<"Second">>)>>)

\* the part lists of a multipart message: a text/plain part first, later,
\* nested, blank or missing
PartLists ==
    {<<p, SecondPart>> : p \in EncodedParts}
    \cup {<<HtmlPart, p>> : p \in EncodedParts}
    \cup {<<Wrapped("multipart/alternative", "inner", <<HtmlPart, p>>), SecondPart>> :
            p \in EncodedParts}
    \cup {<<HtmlPart, PdfPart>>,
          <<PlainPart("charset=UTF-8", "", <<Blank>>), SecondPart>>,
          <<PlainPart("charset=x-unknown", "base64", <<B64Line(<<"Hello">>)>>)>>}

MultipartInputs ==
    {TransportHeaders \o Wrapped("multipart/mixed", "outer", l) : l \in PartLists}

\* messages of one text/plain part in each transfer encoding
EncodedInputs == {TransportHeaders \o p : p \in EncodedParts}

\* a multipart/encrypted message whose octet-stream part states a transfer encoding
EncodedOctet(cte, body) ==
    TransportHeaders \o
    Wrapped("multipart/encrypted", "outer",
            <<<<Hdr("Content-Type", <<"application/pgp-encrypted">>), Blank,
                Hdr("Version", <<"1">>), Blank>>,
              <<Hdr("Content-Type", <<"application/octet-stream">>),
                Hdr("Content-Transfer-Encoding", <<cte>>),
                Blank>> \o body>>)

EncodedOctets ==
    {EncodedOctet("base64", <<B64Line(<<"Hello">>)>>),
     EncodedOctet("quoted-printable", <<QpLine(<<"Gr", "\\xFF">>)>>)}

\* no board, and so no column, card, entry or correspondent
EmptyDb ==
    [board |-> FALSE, columns |-> {}, cards |-> <<>>, entries |-> <<>>,
     correspondents |-> <<>>]

\* no parsed_email in the session
NoParsed == [ok |-> FALSE, exc |-> "none"]

NoSession == [parsed_email |-> NoParsed, last_used_column_id |-> 0]

NoResponse == [view |-> "", method |-> "", id |-> 0, answer |-> ""]

\* no request to the import views
\* outside the loop of strip_large_attachments there is no message object
NoMsg == [multi |-> FALSE, none |-> TRUE]

NoStrip == message = NoMsg

\* no confirm request is in flight
NoRequests == <<>>

NoImport ==
    db = EmptyDb /\ session = NoSession /\ response = NoResponse /\ requests = NoRequests

NoLog ==
    [read |-> <<>>, queried |-> <<>>, gpg |-> <<>>, said |-> <<>>, shown |-> <<>>,
     cancelled |-> 0]

\* no review run
NoReview ==
    /\ pc = "idle"
    /\ dir = <<>>
    /\ store = {}
    /\ files = <<>>
    /\ pos = 0
    /\ message_id = <<>>
    /\ already_imported = 0
    /\ no_message_id = 0
    /\ copied = 0
    /\ summary = <<>>
    /\ outcome = <<>>
    /\ log = NoLog

\* ------------------------------------ harness of the two pure functions

InitParse ==
    /\ raw \in PgpMimeInputs \cup EncryptedShapes \cup PlainInputs
                \cup MultipartInputs \cup EncodedInputs \cup EncodedOctets
    /\ ppc = "input"
    /\ content = <<>>
    /\ status = "not-called"
    /\ parsed = NotCalled
    /\ returncodes = <<>>
    /\ NoReview
    /\ NoStrip
    /\ NoImport

UnwrapInto(u) ==
    /\ content' = u.content
    /\ status' = u.status
    /\ ppc' = "unwrapped"
    /\ UNCHANGED <<raw, parsed, returncodes, reviewVars, importVars, stripVars>>

\* content, status = unwrap_pgp_mime(raw)
Unwrap == ppc = "input" /\ UnwrapInto(UnwrapPgpMime(raw))

\* parse_raw_email(content)
ParseUnwrapped ==
    /\ ppc = "unwrapped"
    /\ parsed' = ParseRawEmail(content)
    /\ ppc' = "parsed"
    /\ UNCHANGED <<raw, content, status, returncodes, reviewVars, importVars, stripVars>>

\* parse_raw_email(raw)
ParseDirect ==
    /\ ppc = "input"
    /\ parsed' = ParseRawEmail(raw)
    /\ ppc' = "direct"
    /\ UNCHANGED <<raw, content, status, returncodes, reviewVars, importVars, stripVars>>

NextParse == Unwrap \/ ParseUnwrapped \/ ParseDirect

SpecParse == InitParse /\ [][NextParse]_vars

\* ------------------------------------- review_emails.py: Command.handle

\* how many files the directory holds at most
MaxFiles == 2

MailHeaders(mid, date) ==
    <<Hdr("From", <<"alice@example.com">>), Hdr("Subject", <<"Hello">>)>> \o date \o mid

\* an armored payload that is large
LargeArmor == <<ArmorBegin, Blank, [ArmorData("d1") EXCEPT !.n = 1600000], ArmorEnd>>

\* a message with a large attachment
LargeMixed ==
    MailHeaders(<<Hdr("Message-ID", <<"<m5@example.com>">>)>>,
                <<Hdr("Date", <<"3 Jan 2024 10:00:00", " ", "-0000">>)>>)
    \o <<Hdr("MIME-Version", <<"1.0">>),
         Hdr("Content-Type", <<"multipart/mixed", ";", " ", "boundary=inner">>),
         Blank,
         Delim("inner"),
         Hdr("Content-Type", PlainContentType),
         Blank,
         Text(<<"Hello">>),
         Delim("inner"),
         Hdr("Content-Type", <<"application/pdf", ";", " ", "name=\"big.pdf\"">>),
         Hdr("Content-Transfer-Encoding", <<"base64">>),
         Hdr("Content-Disposition", <<"attachment", ";", " ", "filename=\"big.pdf\"">>),
         Blank,
         [k |-> "b64", name |-> "", val |-> <<"QUJD">>, n |-> 1600000],
         Close("inner"),
         Blank>>

\* the mail files a directory may hold
MailFiles ==
    {MailHeaders(<<Hdr("Message-ID", <<"<m1@example.com>">>)>>,
                 <<Hdr("Date", <<"1 Jan 2024 11:00:00", " ", "+0200">>)>>)
        \o <<Blank>> \o BodyText,
     MailHeaders(<<>>, <<>>) \o <<Blank, ArmorBegin, ArmorData("d2"), ArmorEnd>>,
     MailHeaders(<<Hdr("Message-ID", <<" ">>)>>, <<Hdr("Date", <<"yesterday">>)>>)
        \o <<Blank>> \o BodyText,
     MailHeaders(<<Hdr("Message-ID", <<"<m1@example.com>">>)>>,
                 <<Hdr("Date", <<"1 Jan 2024 10:00:00", " ", "+0000">>)>>)
        \o <<Blank, Text(<<"before">>), ArmorBegin, ArmorData("d2"), ArmorEnd,
             Text(<<"after">>)>>,
     PgpMimeEmail(LargeArmor, Dots, <<>>),
     PgpMimeEmail(InnerMixed(<<"Hi">>, TRUE), Dots, <<>>),
     LargeMixed}

RECURSIVE Listings(_)
Listings(n) ==
    IF n = 0 THEN {<<>>}
    ELSE Listings(n - 1)
         \cup {Append(l, f) : l \in {x \in Listings(n - 1) : Len(x) = n - 1}, f \in MailFiles}

\* HeaderParser().parsestr: the headers of a text
HeadersOf(ls) == MergeHeaders(SubSeq(ls, 1, HeaderBlockLen(ls)))

\* the date and time a datetime shows, whatever its zone
KeyLocal(p) == IF p.raised THEN 0 ELSE p.dt.local

\* the instant of a datetime, a naive one taken as UTC; datetime.min (0) when
\* parsedate_to_datetime raised
KeyOf(p) == IF p.raised THEN 0 ELSE p.dt.local - p.dt.offset

\* _date_key: parsedate_to_datetime(headers["Date"]) as an instant
DateKey(ls) == KeyOf(ParsedateToDatetime(GetHeader(HeadersOf(ls), "date")))

\* sorted() is stable: a file goes behind the files that sort no later
RECURSIVE InsertFile(_, _, _)
InsertFile(sorted, d, f) ==
    IF sorted # <<>> /\ DateKey(d[sorted[Len(sorted)]]) > DateKey(d[f])
    THEN Append(InsertFile(SubSeq(sorted, 1, Len(sorted) - 1), d, f), sorted[Len(sorted)])
    ELSE Append(sorted, f)

\* the files as listed
ListedOrder(d, n) == [i \in 1..n |-> i]

RECURSIVE SortedFiles(_, _)
SortedFiles(d, n) ==
    IF n = 0 THEN <<>> ELSE InsertFile(SortedFiles(d, n - 1), d, n)

InitReview ==
    /\ dir \in Listings(MaxFiles)
    /\ store \in SUBSET {<<"<m1@example.com>">>, <<"<test@example.com>">>}
    /\ pc = "start"
    /\ files = <<>>
    /\ pos = 0
    /\ message_id = <<>>
    /\ already_imported = 0
    /\ no_message_id = 0
    /\ copied = 0
    /\ summary = <<>>
    /\ outcome = [f \in 1..Len(dir) |-> "unseen"]
    /\ log = NoLog
    /\ raw = <<>>
    /\ ppc = "idle"
    /\ content = <<>>
    /\ status = "not-called"
    /\ parsed = NotCalled
    /\ returncodes = <<>>
    /\ NoImport
    /\ NoStrip

\* the listing and the sort; an empty directory ends the run at once
Start ==
    /\ pc = "start"
    /\ IF dir = <<>>
       THEN pc' = "returned" /\ files' = files
       ELSE pc' = "next" /\ files' = SortedFiles(dir, Len(dir))
    /\ UNCHANGED <<importVars, stripVars, parseVars, dir, store, pos, message_id, already_imported, no_message_id,
                   copied, summary, outcome, log>>

CheckId(f, text, mid) ==
    /\ raw' = text
    /\ content' = text
    /\ message_id' = mid
    /\ pos' = pos + 1
    /\ log' = [log EXCEPT !.read = Append(@, f)]
    /\ IF mid = <<>>
       THEN /\ no_message_id' = no_message_id + 1
            /\ outcome' = [outcome EXCEPT ![f] = "no_message_id"]
            /\ pc' = "next"
       ELSE /\ pc' = "query"
            /\ UNCHANGED <<no_message_id, outcome>>
    /\ UNCHANGED <<importVars, stripVars, ppc, status, parsed, returncodes, dir, store, files, already_imported,
                   copied, summary>>

\* the loop takes the next file, reads it and looks at its Message-ID
ReadFile ==
    /\ pc = "next"
    /\ pos < Len(files)
    /\ CheckId(files[pos + 1], dir[files[pos + 1]],
               Strip(GetHeader(HeadersOf(dir[files[pos + 1]]), "message-id")))

\* a query that finds no record
ExistsNever(entries, mid) == FALSE

\* Entry.objects.filter(message_id=message_id).exists()
Exists(entries, mid) == mid \in entries

QueryStore ==
    /\ pc = "query"
    /\ log' = [log EXCEPT !.queried =
                  Append(@, [file |-> files[pos], message_id |-> message_id, store |-> store])]
    /\ IF Exists(store, message_id)
       THEN /\ already_imported' = already_imported + 1
            /\ outcome' = [outcome EXCEPT ![files[pos]] = "already_imported"]
            /\ pc' = "next"
       ELSE /\ pc' = "process"
            /\ UNCHANGED <<already_imported, outcome>>
    /\ UNCHANGED <<importVars, stripVars, parseVars, dir, store, files, pos, message_id, no_message_id, copied,
                   summary>>

\* a search that finds a block in every text
AlwaysPgpBlock(ls) == TRUE

\* PGP_BLOCK_RE.search(content)
HasPgpBlock(ls) == PgpBlocks(ls) # <<>>

\* what the run writes about the PGP content of a file
PgpNote(f, st) ==
    CASE st = "encrypted" -> <<[file |-> f, line |-> "PGP encrypted (could not decrypt)."]>>
      [] st = "not-called" -> <<>>
      [] OTHER -> <<[file |-> f, line |-> "Decrypted PGP content."]>>

GpgCalls(f, ls, blocks, codes) ==
    [b \in 1..Len(blocks) |->
        [file |-> f, block |-> SubSeq(ls, blocks[b].from, blocks[b].to), rc |-> codes[b]]]

Stripped(text, st, codes) ==
    /\ content' = StripLargeAttachments(text)
    /\ status' = st
    /\ returncodes' = codes
    /\ log' = [log EXCEPT !.gpg = @ \o GpgCalls(files[pos], raw, PgpBlocks(raw), codes),
                           !.said = @ \o PgpNote(files[pos], st)]
    /\ pc' = "present"
    /\ UNCHANGED <<importVars, stripVars, raw, ppc, parsed, dir, store, files, pos, message_id, already_imported,
                   no_message_id, copied, summary, outcome>>

\* a run that skips the file it could not decrypt
UnwrappedOrSkipped(u, codes) ==
    IF u.status = "encrypted"
    THEN /\ pc' = "next"
         /\ status' = u.status
         /\ returncodes' = codes
         /\ UNCHANGED <<importVars, stripVars, raw, ppc, content, parsed, dir, store, files, pos, message_id,
                        already_imported, no_message_id, copied, summary, outcome, log>>
    ELSE Stripped(u.content, u.status, codes)

Unwrapped(u, codes) == Stripped(u.content, u.status, codes)

\* decrypt and unwrap if the text holds an armored block, then strip
Process ==
    /\ pc = "process"
    /\ IF HasPgpBlock(raw)
       THEN \E codes \in [1..Len(PgpBlocks(raw)) -> ReturnCodes] :
                Unwrapped(UnwrapPgpMime(DecryptPgpBlocks(raw, codes)), codes)
       ELSE Stripped(raw, "not-called", <<>>)

\* wl-copy is given the content; check=True raises when it fails
Present ==
    /\ pc = "present"
    /\ log' = [log EXCEPT !.shown =
                  Append(@, [file |-> files[pos], content |-> content, status |-> status])]
    /\ \E accepted \in BOOLEAN :
         IF accepted
         THEN /\ copied' = copied + 1
              /\ outcome' = [outcome EXCEPT ![files[pos]] = "copied"]
              /\ pc' = "prompt"
         ELSE /\ pc' = "raised"
              /\ UNCHANGED <<copied, outcome>>
    /\ UNCHANGED <<importVars, stripVars, parseVars, dir, store, files, pos, message_id, already_imported,
                   no_message_id, summary>>

\* input() returns
Enter ==
    /\ pc = "prompt"
    /\ pc' = "next"
    /\ UNCHANGED <<importVars, stripVars, parseVars, dir, store, files, pos, message_id, already_imported,
                   no_message_id, copied, summary, outcome, log>>

\* a cancel that goes on with the next file
CancelIgnored ==
    /\ pc = "prompt"
    /\ pc' = "next"
    /\ log' = [log EXCEPT !.cancelled = pos]
    /\ UNCHANGED <<importVars, stripVars, parseVars, dir, store, files, pos, message_id, already_imported,
                   no_message_id, copied, summary, outcome>>

\* input() raises KeyboardInterrupt or EOFError: break
Cancel ==
    /\ pc = "prompt"
    /\ pc' = "summary"
    /\ log' = [log EXCEPT !.cancelled = pos]
    /\ UNCHANGED <<importVars, stripVars, parseVars, dir, store, files, pos, message_id, already_imported,
                   no_message_id, copied, summary, outcome>>

\* while the run waits, the operator imports the message just presented
OperatorImport ==
    /\ pc = "prompt"
    /\ message_id \notin store
    /\ store' = store \cup {message_id}
    /\ UNCHANGED <<importVars, stripVars, parseVars, pc, dir, files, pos, message_id, already_imported,
                   no_message_id, copied, summary, outcome, log>>

\* the loop has taken every file
LoopEnd ==
    /\ pc = "next"
    /\ pos = Len(files)
    /\ pc' = "summary"
    /\ UNCHANGED <<importVars, stripVars, parseVars, dir, store, files, pos, message_id, already_imported,
                   no_message_id, copied, summary, outcome, log>>

\* the two lines the run ends with
Summary ==
    /\ pc = "summary"
    /\ summary' = <<[copied |-> copied,
                     total_emails |-> Len(files) - no_message_id,
                     total_imported |-> already_imported + copied,
                     remaining |-> Len(files) - no_message_id - (already_imported + copied)]>>
    /\ pc' = "done"
    /\ UNCHANGED <<importVars, stripVars, parseVars, dir, store, files, pos, message_id, already_imported,
                   no_message_id, copied, outcome, log>>

\* a KeyboardInterrupt outside input() is caught nowhere
Interrupt ==
    /\ pc \in {"query", "process", "present"}
    /\ pc' = "raised"
    /\ UNCHANGED <<importVars, stripVars, parseVars, dir, store, files, pos, message_id, already_imported,
                   no_message_id, copied, summary, outcome, log>>

NextReview ==
    \/ Start \/ ReadFile \/ QueryStore \/ Process \/ Present \/ Enter \/ Cancel
    \/ OperatorImport \/ LoopEnd \/ Summary \/ Interrupt

\* once the loop is left the run goes on to print its summary
SpecReview == InitReview /\ [][NextReview]_vars /\ WF_vars(Summary)

\* --------------------------------------- harness of decrypt_pgp_blocks

\* how many lines a text given to decrypt_pgp_blocks has at most
MaxLines == 6

ArmorLines == {Text(<<"x">>), ArmorBegin, ArmorData("d2"), ArmorEnd}

RECURSIVE ArmorTexts(_)
ArmorTexts(n) ==
    IF n = 0 THEN {<<>>}
    ELSE ArmorTexts(n - 1)
         \cup {Append(t, l) : t \in {x \in ArmorTexts(n - 1) : Len(x) = n - 1},
                              l \in ArmorLines}

InitDecrypt ==
    /\ raw \in ArmorTexts(MaxLines)
    /\ returncodes \in [1..Len(PgpBlocks(raw)) -> ReturnCodes]
    /\ ppc = "input"
    /\ content = <<>>
    /\ status = "not-called"
    /\ parsed = NotCalled
    /\ NoReview
    /\ NoStrip
    /\ NoImport

\* content = decrypt_pgp_blocks(raw), gpg returning returncodes
Decrypt ==
    /\ ppc = "input"
    /\ content' = DecryptPgpBlocks(raw, returncodes)
    /\ ppc' = "decrypted"
    /\ UNCHANGED <<raw, status, parsed, returncodes, reviewVars, importVars, stripVars>>

NextDecrypt == Decrypt

SpecDecrypt == InitDecrypt /\ [][NextDecrypt]_vars

\* ----------------------------------- harness of strip_large_attachments

\* a decrypted inner message that carries a large attachment
LargeInner ==
    <<Hdr("Content-Type", <<"multipart/mixed", ";", " ", "boundary=inner">>),
      Blank,
      Delim("inner"),
      Hdr("Content-Type", PlainContentType),
      Blank>>
    \o BodyText \o
    <<Delim("inner"),
      Hdr("Content-Type", <<"application/pdf", ";", " ", "name=\"big.pdf\"">>),
      Blank,
      [k |-> "data", name |-> "", val |-> <<"pdf">>, n |-> 1600000],
      Close("inner")>>

AttachmentSizes == {100, 800000, 1600000}

Attachment(type, size) ==
    <<Delim("inner"),
      Hdr("Content-Type", <<type>>),
      Blank,
      [k |-> "data", name |-> "", val |-> <<"bytes">>, n |-> size]>>

\* a multipart/mixed message with a text part and two more parts
MixedWith(type, first, second) ==
    <<Hdr("Message-ID", <<"<m5@example.com>">>),
      Hdr("Content-Type", <<"multipart/mixed", ";", " ", "boundary=inner">>),
      Blank,
      Delim("inner"),
      Hdr("Content-Type", PlainContentType),
      Blank>>
    \o BodyText
    \o Attachment("application/pdf", first)
    \o Attachment(type, second)
    \o <<Close("inner"), Blank>>

\* a multipart/encrypted message with a large payload, its type as the header spells it
LargeEncrypted(type, boundary) ==
    <<Hdr("Message-ID", <<"<m6@example.com>">>),
      Hdr("Content-Type", <<type, ";", " ">> \o boundary),
      Blank,
      Delim("outer"),
      Hdr("Content-Type", <<"application/octet-stream">>),
      Blank,
      [k |-> "data", name |-> "", val |-> <<"bytes">>, n |-> 1600000],
      Close("outer")>>

\* a multipart/mixed message holding a multipart/alternative part (a large
\* text/html part and an attachment) and one more attachment behind it
NestedWith(first, second) ==
    <<Hdr("Message-ID", <<"<m7@example.com>">>),
      Hdr("Content-Type", <<"multipart/mixed", ";", " ", "boundary=outer">>),
      Blank,
      Delim("outer"),
      Hdr("Content-Type", <<"multipart/alternative", ";", " ", "boundary=inner">>),
      Blank,
      Delim("inner"),
      Hdr("Content-Type", <<"text/html">>),
      Blank,
      [k |-> "data", name |-> "", val |-> <<"html">>, n |-> 1600000]>>
    \o Attachment("application/pdf", first)
    \o <<Close("inner"),
         Delim("outer"),
         Hdr("Content-Type", <<"application/pdf">>),
         Blank,
         [k |-> "data", name |-> "", val |-> <<"bytes">>, n |-> second],
         Close("outer"),
         Blank>>

StripInputs ==
    {PgpMimeEmail(o, s, x) :
        o \in {LargeArmor, ArmoredBlock, LargeInner, InnerMixed(<<"Hi">>, TRUE)},
        s \in OuterSubjects, x \in {<<>>, <<ReceivedHeader>>}}
    \cup {MixedWith(t, a, b) :
            t \in {"image/png", "text/html", "application/pdf"},
            a \in AttachmentSizes, b \in AttachmentSizes}
    \cup {NestedWith(a, b) : a \in AttachmentSizes, b \in AttachmentSizes}
    \cup {LargeEncrypted(t, b) :
            t \in {"multipart/encrypted", "Multipart/Encrypted", "multipart/mixed"},
            b \in {<<"boundary=outer">>, <<>>}}
    \cup {LargeMixed}

InitStrip ==
    /\ raw \in StripInputs
    /\ ppc = "input"
    /\ content = <<>>
    /\ status = "not-called"
    /\ parsed = NotCalled
    /\ returncodes = <<>>
    /\ NoReview
    /\ NoStrip
    /\ NoImport

\* content = strip_large_attachments(raw)
StripContent ==
    /\ ppc = "input"
    /\ content' = StripLargeAttachments(raw)
    /\ ppc' = "stripped"
    /\ UNCHANGED <<raw, status, parsed, returncodes, reviewVars, importVars, stripVars>>

NextStrip == StripContent

SpecStrip == InitStrip /\ [][NextStrip]_vars

\* ------------------------- the loop of strip_large_attachments, step by step

\* the early returns, or message_from_string and the way into the loop
StripEnter ==
    /\ ppc = "input"
    /\ IF \/ TextSize(raw) <= MaxSize
          \/ ~ParseMessage(raw).multi
          \/ ParseMessage(raw).ctype = "multipart/encrypted"
       THEN /\ content' = raw
            /\ ppc' = "stripped"
            /\ UNCHANGED message
       ELSE /\ message' = ParseMessage(raw)
            /\ ppc' = "loop"
            /\ UNCHANGED content
    /\ UNCHANGED <<raw, status, parsed, returncodes, reviewVars, importVars>>

\* the walk for the largest part
LargestPart(m) == LargestFrom(m, Paths(m), 1, <<>>, 0)

\* the replacement one round of the loop makes
Replacement(m) ==
    ReplaceAt(m, LargestPart(m).path,
              PlaceholderPart(PartAt(m, LargestPart(m).path), LargestPart(m).size))

\* one round of the loop: the largest part becomes its placeholder
StripIteration ==
    /\ ppc = "loop"
    /\ TextSize(AsString(message)) > MaxSize
    /\ LargestPart(message).size # 0
    /\ message' = Replacement(message)
    /\ UNCHANGED <<parseVars, reviewVars, importVars>>

\* the loop's end, at its condition or at its break: return msg.as_string()
StripReturn ==
    /\ ppc = "loop"
    /\ \/ TextSize(AsString(message)) <= MaxSize
       \/ LargestPart(message).size = 0
    /\ content' = AsString(message)
    /\ ppc' = "stripped"
    /\ UNCHANGED <<raw, status, parsed, returncodes, reviewVars, importVars, message>>

NextStripLoop == StripEnter \/ StripIteration \/ StripReturn

\* a step is left to take until the function has returned, and each step
\* changes the state: ENABLED <<NextStripLoop>>_vars is ppc # "stripped"
StepLeft ==
    /\ ppc \in {"input", "loop", "stripped"}
    /\ (ppc = "loop" /\ TextSize(AsString(message)) > MaxSize /\ LargestPart(message).size # 0)
          => Replacement(message) # message

\* the function runs on its own, a step that can be taken is taken:
\* WF_vars(NextStripLoop), with its ENABLED written as StepLeft states it
StripFairness == []<>(ppc = "stripped") \/ []<><<NextStripLoop>>_vars

SpecStripLoop == InitStrip /\ [][NextStripLoop]_vars /\ StripFairness

\* what the steps return is what the function as a whole returns
StepsAgree == ppc = "stripped" => content = StripLargeAttachments(raw)

\* ------------------------------------------------- views.py: the import views

MaxEntries == 2

Answer(view, method, id, answer) ==
    [view |-> view, method |-> method, id |-> id, answer |-> answer]

\* " ".join(clean.split()): runs of white space become one space
RECURSIVE Collapse(_)
Collapse(atoms) ==
    IF Len(atoms) < 2 THEN atoms
    ELSE IF IsSpace(atoms[1]) /\ IsSpace(atoms[2]) THEN Collapse(Tail(atoms))
    ELSE <<atoms[1]>> \o Collapse(Tail(atoms))

\* _clean_subject_for_matching: the reply and forward prefixes removed
CleanSubject(subject) ==
    Collapse(Strip(SelectSeq(subject, LAMBDA a : a \notin {"Re:", "Fwd:"})))

\* a query that finds no entry
NoDuplicate(entries, mid) == {}

\* Entry.objects.filter(message_id=message_id)
DuplicateOf(entries, mid) == {i \in 1..Len(entries) : entries[i].message_id = mid}

\* the check both confirm views make: a message_id that is not empty and that
\* an entry holds
IsDuplicate(entries, mid) == mid # <<>> /\ DuplicateOf(entries, mid) # {}

Least(S) == CHOOSE x \in S : \A y \in S : x <= y

Greatest(S) == CHOOSE x \in S : \A y \in S : x >= y

\* the correspondent with the email, which takes the name if it has none; else
\* the first one with the email among its aliases; else a new one
FoundOrCreated(cs, email, name, byEmail, byAlias) ==
    IF email = "" THEN [cs |-> cs, sender |-> 0]
    ELSE IF byEmail # {}
    THEN [cs |-> IF name # <<>> /\ cs[Least(byEmail)].name = <<>>
                 THEN [cs EXCEPT ![Least(byEmail)].name = name] ELSE cs,
          sender |-> Least(byEmail)]
    ELSE IF byAlias # {} THEN [cs |-> cs, sender |-> Least(byAlias)]
    ELSE [cs |-> Append(cs, [email |-> email, name |-> name, aliases |-> {}]),
          sender |-> Len(cs) + 1]

\* _get_or_create_correspondent: the table afterwards and the correspondent
GetOrCreateCorrespondent(cs, email, name) ==
    FoundOrCreated(cs, email, name,
                   {i \in 1..Len(cs) : cs[i].email = email},
                   {i \in 1..Len(cs) : email \in cs[i].aliases})

\* the date of the entry, in hours: the parsed date, or timezone.now()
EmailDate(date) == IF date.known THEN date.local - date.offset ELSE 1000

\* Entry.objects.create
NewEntry(card, sender, p, note) ==
    [card |-> card, sender |-> sender, from_addr |-> p.from_addr, subject |-> p.subject,
     message_id |-> p.message_id, date |-> EmailDate(p.date), body |-> p.body,
     raw_message |-> p.raw_message, summary |-> Strip(note)]

WithDates(d, card, dates) ==
    IF dates = {} THEN d
    ELSE [d EXCEPT !.cards[card].start_date = Least(dates),
                   !.cards[card].last_update_date = Greatest(dates)]

\* Card.update_dates_from_entries
UpdateDatesFromEntries(d, card) ==
    WithDates(d, card,
              {d.entries[i].date : i \in {j \in 1..Len(d.entries) : d.entries[j].card = card}})

\* the correspondent, the entry, the card's dates; parsed_email leaves the session
CreateEntry(d, s, card, p, note, who) ==
    /\ db' = UpdateDatesFromEntries(
                [d EXCEPT !.correspondents = who.cs,
                          !.entries = Append(@, NewEntry(card, who.sender, p, note))],
                card)
    /\ session' = [s EXCEPT !.parsed_email = NoParsed]

\* import_email, POST: the pasted text is parsed and kept in the session
Pasted(text, next, p) ==
    IF text = <<>>
    THEN /\ response' = Answer("import_email", "POST", 0, "error:paste")
         /\ UNCHANGED <<db, session>>
    ELSE IF ~p.ok
    THEN /\ response' = Answer("import_email", "POST", 0, "error:parse")
         /\ UNCHANGED <<db, session>>
    ELSE /\ session' = [session EXCEPT !.parsed_email = p]
         /\ response' = Answer("import_email", "POST", 0, next)
         /\ UNCHANGED db

ImportEmail(text, next) ==
    /\ Pasted(StripLines(text), next, ParseRawEmail(StripLines(text)))
    /\ UNCHANGED <<requests, parseVars, reviewVars, stripVars>>

\* confirm_import, POST, past the check for a duplicate; s is request.session
CreateForCard(card_id, s, p, note) ==
    /\ Len(db.entries) < MaxEntries
    /\ CreateEntry(db, s, card_id, p, note,
                   GetOrCreateCorrespondent(db.correspondents, p.from_addr, p.from_name))
    /\ response' = Answer("confirm_import", "POST", card_id, "redirect:card_detail")

\* confirm_import, POST, for the card
ConfirmCard(card_id, p, note) ==
    IF IsDuplicate(db.entries, p.message_id)
    THEN /\ response' = Answer("confirm_import", "POST", card_id, "error:already-imported")
         /\ UNCHANGED <<db, session>>
    ELSE CreateForCard(card_id, session, p, note)

ConfirmImport(card_id, method, note) ==
    /\ IF ~session.parsed_email.ok
       THEN /\ response' = Answer("confirm_import", method, card_id, "redirect:import_email")
            /\ UNCHANGED <<db, session>>
       ELSE IF card_id \notin 1..Len(db.cards)
       THEN /\ response' = Answer("confirm_import", method, card_id, "404")
            /\ UNCHANGED <<db, session>>
       ELSE IF method = "POST"
       THEN ConfirmCard(card_id, session.parsed_email, note)
       ELSE /\ response' = Answer("confirm_import", method, card_id, "page")
            /\ UNCHANGED <<db, session>>
    /\ UNCHANGED <<requests, parseVars, reviewVars, stripVars>>

\* Card.objects.create, titled with the cleaned subject or "Untitled", and what
\* follows it
CreateCard(d, s, column, p, note) ==
    CreateEntry([d EXCEPT !.cards = Append(@, [column |-> column,
                                               title |-> IF CleanSubject(p.subject) = <<>>
                                                         THEN <<"Untitled">>
                                                         ELSE CleanSubject(p.subject),
                                               start_date |-> 0,
                                               last_update_date |-> 0])],
                [s EXCEPT !.last_used_column_id = column],
                Len(d.cards) + 1, p, note,
                GetOrCreateCorrespondent(d.correspondents, p.from_addr, p.from_name))

\* confirm_import_new, POST, past the check for a duplicate; s is request.session
ConfirmColumn(column_id, s, p, note) ==
    IF ~db.board
    THEN /\ response' = Answer("confirm_import_new", "POST", column_id, "error:no-board")
         /\ UNCHANGED <<db, session>>
    ELSE IF column_id # 0 /\ column_id \notin db.columns
    THEN /\ response' = Answer("confirm_import_new", "POST", column_id, "404")
         /\ UNCHANGED <<db, session>>
    ELSE IF column_id = 0 /\ db.columns = {}
    THEN /\ response' = Answer("confirm_import_new", "POST", column_id, "error:no-column")
         /\ UNCHANGED <<db, session>>
    ELSE /\ Len(db.entries) < MaxEntries
         /\ CreateCard(db, s, IF column_id # 0 THEN column_id ELSE Least(db.columns),
                       p, note)
         /\ response' = Answer("confirm_import_new", "POST", column_id, "redirect:card_detail")

ConfirmNew(column_id, p, note) ==
    IF IsDuplicate(db.entries, p.message_id)
    THEN /\ response' = Answer("confirm_import_new", "POST", column_id,
                               "error:already-imported")
         /\ UNCHANGED <<db, session>>
    ELSE ConfirmColumn(column_id, session, p, note)

ConfirmImportNew(column_id, method, note) ==
    /\ IF ~session.parsed_email.ok
       THEN /\ response' = Answer("confirm_import_new", method, column_id,
                                  "redirect:import_email")
            /\ UNCHANGED <<db, session>>
       ELSE IF method = "POST"
       THEN ConfirmNew(column_id, session.parsed_email, note)
       ELSE /\ response' = Answer("confirm_import_new", method, column_id, "page")
            /\ UNCHANGED <<db, session>>
    /\ UNCHANGED <<requests, parseVars, reviewVars, stripVars>>

\* ------------------------------------------- harness of the import views

\* a pasted mail: its From value and its Message-ID header
PastedMail(from, mid) ==
    (IF from = <<>> THEN <<>> ELSE <<Hdr("From", from)>>)
    \o <<Hdr("Subject", <<"Re:", " ", "Project Update">>), Hdr("Date", DateValue)>>
    \o mid \o <<Blank>> \o BodyText

PastedTexts ==
    {<<>>,
     PastedMail(<<"alice@example.com">>, <<Hdr("Message-ID", <<"<m1@example.com>">>)>>),
     PastedMail(<<"Alice", " ", "<alice@example.com>">>,
                <<Hdr("Message-ID", <<"<m2@example.com>">>)>>),
     PastedMail(<<"alice@example.com">>, <<>>),
     PastedMail(<<>>, <<>>),
     PastedMail(<<"=?x-unknown?Q?Hi?=", " ", "<bob@example.com>">>, <<>>)}

Summaries == {<<"note", " ">>}

\* a board with two columns, a card and the entry of an earlier import
OneCard(correspondents) ==
    [board |-> TRUE, columns |-> {1, 2},
     cards |-> <<[column |-> 1, title |-> <<"Hello">>, start_date |-> 34,
                  last_update_date |-> 34]>>,
     entries |-> <<[card |-> 1, sender |-> 0, from_addr |-> "bob@example.com",
                    subject |-> <<"Hello">>, message_id |-> <<"<m1@example.com>">>,
                    date |-> 34, body |-> BodyText, raw_message |-> <<>>,
                    summary |-> <<>>]>>,
     correspondents |-> correspondents]

Databases ==
    {EmptyDb,
     [EmptyDb EXCEPT !.board = TRUE],
     [EmptyDb EXCEPT !.board = TRUE, !.columns = {2}],
     OneCard(<<>>),
     OneCard(<<[email |-> "bob@example.com", name |-> <<>>,
                aliases |-> {"alice@example.com"}]>>)}

InitImport ==
    /\ db \in Databases
    /\ session = NoSession
    /\ response = NoResponse
    /\ requests = NoRequests
    /\ raw = <<>>
    /\ ppc = "idle"
    /\ content = <<>>
    /\ status = "not-called"
    /\ parsed = NotCalled
    /\ returncodes = <<>>
    /\ NoReview
    /\ NoStrip

NextImport ==
    \/ \E text \in PastedTexts,
          next \in {"redirect:confirm_import", "redirect:confirm_import_new",
                    "redirect:suggest_cards"} :
          ImportEmail(text, next)
    \/ \E card_id \in 1..2, method \in {"GET", "POST"}, note \in Summaries :
          ConfirmImport(card_id, method, note)
    \/ \E column_id \in 0..2, method \in {"GET", "POST"}, note \in Summaries :
          ConfirmImportNew(column_id, method, note)

SpecImport == InitImport /\ [][NextImport]_vars

\* ------------------------------ the confirm views, requests side by side

\* how many confirm requests the server works on at a time
MaxRequests == 2

\* a worker that holds no request
Idle == [pc |-> "idle"]

\* a request past its check: its view, its argument, its session as loaded,
\* the parsed email it read from it, and the summary it posts
Checked(view, id, s, note) ==
    [pc |-> "create", view |-> view, id |-> id, session |-> s,
     parsed |-> s.parsed_email, note |-> note]

\* confirm_import, POST, up to its check for a duplicate (lines 454-476)
CheckImport(r, card_id, note) ==
    /\ requests[r] = Idle
    /\ IF ~session.parsed_email.ok
       THEN /\ response' = Answer("confirm_import", "POST", card_id, "redirect:import_email")
            /\ UNCHANGED requests
       ELSE IF card_id \notin 1..Len(db.cards)
       THEN /\ response' = Answer("confirm_import", "POST", card_id, "404")
            /\ UNCHANGED requests
       ELSE IF IsDuplicate(db.entries, session.parsed_email.message_id)
       THEN /\ response' = Answer("confirm_import", "POST", card_id, "error:already-imported")
            /\ UNCHANGED requests
       ELSE /\ requests' = [requests EXCEPT ![r] = Checked("confirm_import", card_id,
                                                          session, note)]
            /\ UNCHANGED response
    /\ UNCHANGED <<db, session, parseVars, reviewVars, stripVars>>

\* confirm_import_new, POST, up to its check for a duplicate (lines 517-543)
CheckImportNew(r, column_id, note) ==
    /\ requests[r] = Idle
    /\ IF ~session.parsed_email.ok
       THEN /\ response' = Answer("confirm_import_new", "POST", column_id,
                                  "redirect:import_email")
            /\ UNCHANGED requests
       ELSE IF IsDuplicate(db.entries, session.parsed_email.message_id)
       THEN /\ response' = Answer("confirm_import_new", "POST", column_id,
                                  "error:already-imported")
            /\ UNCHANGED requests
       ELSE /\ requests' = [requests EXCEPT ![r] = Checked("confirm_import_new", column_id,
                                                          session, note)]
            /\ UNCHANGED response
    /\ UNCHANGED <<db, session, parseVars, reviewVars, stripVars>>

\* the rest of the view the request is in: the entry is created (or the view
\* answers with an error) and the request ends
Create(r) ==
    /\ requests[r] # Idle
    /\ IF requests[r].view = "confirm_import"
       THEN CreateForCard(requests[r].id, requests[r].session, requests[r].parsed,
                          requests[r].note)
       ELSE ConfirmColumn(requests[r].id, requests[r].session, requests[r].parsed,
                          requests[r].note)
    /\ requests' = [requests EXCEPT ![r] = Idle]
    /\ UNCHANGED <<parseVars, reviewVars, stripVars>>

\* import_email, POST, while confirm requests may be in flight
ImportMeanwhile(text) ==
    /\ Pasted(StripLines(text), "redirect:suggest_cards", ParseRawEmail(StripLines(text)))
    /\ UNCHANGED <<requests, parseVars, reviewVars, stripVars>>

\* the mails pasted meanwhile: two with a Message-ID, one without
RaceTexts ==
    {PastedMail(<<"alice@example.com">>, <<Hdr("Message-ID", <<"<m1@example.com>">>)>>),
     PastedMail(<<"Alice", " ", "<alice@example.com>">>,
                <<Hdr("Message-ID", <<"<m2@example.com>">>)>>),
     PastedMail(<<"alice@example.com">>, <<>>)}

\* a board with a column, and the board with a card and an earlier import
RaceDatabases == {[EmptyDb EXCEPT !.board = TRUE, !.columns = {2}], OneCard(<<>>)}

InitRace ==
    /\ db \in RaceDatabases
    /\ session = NoSession
    /\ response = NoResponse
    /\ requests = [r \in 1..MaxRequests |-> Idle]
    /\ raw = <<>>
    /\ ppc = "idle"
    /\ content = <<>>
    /\ status = "not-called"
    /\ parsed = NotCalled
    /\ returncodes = <<>>
    /\ NoReview
    /\ NoStrip

NextRace ==
    \/ \E text \in RaceTexts : ImportMeanwhile(text)
    \/ \E r \in 1..MaxRequests, card_id \in 1..2, note \in Summaries :
          CheckImport(r, card_id, note)
    \/ \E r \in 1..MaxRequests, column_id \in {0, 2}, note \in Summaries :
          CheckImportNew(r, column_id, note)
    \/ \E r \in 1..MaxRequests : Create(r)

SpecRace == InitRace /\ [][NextRace]_vars

\* ------------------------------------------- admin.py: merge_correspondents
\*
\* Here db holds the rows of the Correspondent table (a set of records with
\* their pk), the entries (each with its sender's pk, 0 for none) and the
\* core_team relation (pairs of a board and a correspondent's pk).

InList(x, list) == \E i \in 1..Len(list) : list[i] = x

Pks(rows) == {r.pk : r \in rows}

RowOf(rows, pk) == CHOOSE r \in rows : r.pk = pk

\* queryset.order_by("pk"): the selected pks in ascending order
RECURSIVE OrderByPk(_)
OrderByPk(pks) ==
    IF pks = {} THEN <<>> ELSE <<Least(pks)>> \o OrderByPk(pks \ {Least(pks)})

\* primary.aliases once the secondary's email is collected
WithEmail(aliases, own, email) ==
    IF email # own /\ ~InList(email, aliases) THEN Append(aliases, email) ELSE aliases

\* primary.aliases once the secondary's aliases are collected, one by one
RECURSIVE WithAliases(_, _, _)
WithAliases(aliases, own, more) ==
    IF more = <<>> THEN aliases
    ELSE WithAliases(IF Head(more) # own /\ ~InList(Head(more), aliases)
                     THEN Append(aliases, Head(more)) ELSE aliases,
                     own, Tail(more))

\* an update that reaches no entry
ReassignNone(entries, old, new) == entries

\* Entry.objects.filter(sender=secondary).update(sender=primary)
Reassign(entries, old, new) ==
    [i \in 1..Len(entries) |->
        IF entries[i].sender = old THEN [entries[i] EXCEPT !.sender = new]
        ELSE entries[i]]

\* primary.name when it inherits the secondary's
InheritName(name, other) == IF name = <<>> /\ other # <<>> THEN other ELSE name

\* board.core_team.remove(secondary); board.core_team.add(primary), for each
\* board that has the secondary in its core team
MoveCoreTeam(core_team, old, new) ==
    {m \in core_team : m[2] # old} \cup {<<m[1], new>> : m \in {n \in core_team : n[2] = old}}

\* secondary.delete(): the row goes, an entry it still sends loses its sender
\* (on_delete=SET_NULL), its core team memberships go
DeleteCorrespondent(d, pk) ==
    [d EXCEPT !.correspondents = {r \in @ : r.pk # pk},
              !.entries = Reassign(@, pk, 0),
              !.core_team = {m \in @ : m[2] # pk}]

\* one turn of the loop: d is the database, primary the object in memory
MergeOne(d, primary, secondary) ==
    [d |-> DeleteCorrespondent(
               [d EXCEPT !.entries = Reassign(@, secondary.pk, primary.pk),
                         !.core_team = MoveCoreTeam(@, secondary.pk, primary.pk)],
               secondary.pk),
     primary |-> [primary EXCEPT
                    !.aliases = WithAliases(WithEmail(@, primary.email, secondary.email),
                                            primary.email, secondary.aliases),
                    !.name = InheritName(@, secondary.name)]]

\* the loop over the secondaries, then primary.save()
RECURSIVE MergeLoop(_, _, _, _)
MergeLoop(d, rows, primary, secondaries) ==
    IF secondaries = <<>>
    THEN [d EXCEPT !.correspondents = {r \in @ : r.pk # primary.pk} \cup {primary}]
    ELSE MergeLoop(MergeOne(d, primary, RowOf(rows, Head(secondaries))).d, rows,
                   MergeOne(d, primary, RowOf(rows, Head(secondaries))).primary,
                   Tail(secondaries))

\* the database after the action, for the selected rows
Merged(d, selected, order) ==
    IF Cardinality(selected) < 2 THEN d
    ELSE IF Cardinality({r.board : r \in selected}) > 1 THEN d
    ELSE MergeLoop(d, selected, RowOf(selected, Head(order)), Tail(order))

\* the message the action leaves
MergeMessage(selected) ==
    IF Cardinality(selected) < 2 \/ Cardinality({r.board : r \in selected}) > 1
    THEN "ERROR" ELSE "SUCCESS"

\* CorrespondentAdmin.merge_correspondents(request, queryset), the queryset
\* being the rows whose pk is in sel
MergeCorrespondents(sel) ==
    /\ db' = Merged(db, {r \in db.correspondents : r.pk \in sel},
                    OrderByPk(Pks({r \in db.correspondents : r.pk \in sel})))
    /\ response' = Answer("merge_correspondents", "POST", sel,
                          MergeMessage({r \in db.correspondents : r.pk \in sel}))
    /\ UNCHANGED <<session, requests, parseVars, reviewVars, stripVars>>

\* ------------------------------------------- harness of the admin action

Correspondent(pk, board, email, name, aliases) ==
    [pk |-> pk, board |-> board, email |-> email, name |-> name, aliases |-> aliases]

\* the rows the table can hold at the start, each present or not; the second
\* and third may hold aliases they share with one another or with the first,
\* and the first may hold, by the admin's change form, its own email or an
\* alias twice
FirstRows ==
    {Correspondent(1, 1, "a@example.com", name, aliases) :
        name \in {<<>>, <<"A User">>},
        aliases \in {<<>>, <<"b2@example.com">>, <<"a@example.com">>,
                     <<"b2@example.com", "b2@example.com">>}}

SecondRows ==
    {Correspondent(2, 1, "b@example.com", name, aliases) :
        name \in {<<>>, <<"B User">>},
        aliases \in {<<>>, <<"b2@example.com">>, <<"a@example.com", "b2@example.com">>,
                     <<"b2@example.com", "c@example.com">>}}

ThirdRows ==
    {Correspondent(3, board, "c@example.com", <<"C User">>, aliases) :
        board \in {1, 2}, aliases \in {<<>>, <<"b2@example.com">>}}

Tables ==
    {first \cup second \cup third :
        first \in {{}} \cup {{r} : r \in FirstRows},
        second \in {{}} \cup {{r} : r \in SecondRows},
        third \in {{}} \cup {{r} : r \in ThirdRows}}

\* entries of the correspondents and one without sender; core team members
MergeDb(rows) ==
    [correspondents |-> rows,
     entries |-> [i \in 1..5 |->
                     [sender |-> IF <<1, 2, 3, 2, 0>>[i] \in Pks(rows)
                                 THEN <<1, 2, 3, 2, 0>>[i] ELSE 0]],
     core_team |-> {m \in {<<1, 2>>, <<2, 2>>, <<2, 1>>} : m[2] \in Pks(rows)}]

InitMerge ==
    /\ db \in {MergeDb(rows) : rows \in Tables}
    /\ session = NoSession
    /\ response = NoResponse
    /\ requests = NoRequests
    /\ raw = <<>>
    /\ ppc = "idle"
    /\ content = <<>>
    /\ status = "not-called"
    /\ parsed = NotCalled
    /\ returncodes = <<>>
    /\ NoReview
    /\ NoStrip

NextMerge == \E sel \in SUBSET (1..3) : MergeCorrespondents(sel)

SpecMerge == InitMerge /\ [][NextMerge]_vars

\* ------------------------------------------------------------ the claims

\* the text parse_raw_email was given
ParsedText == IF ppc = "direct" THEN raw ELSE content

ParseDone == ppc \in {"parsed", "direct"}

\* the decrypted sub-message a multipart/encrypted text holds in its octet-stream part
InnerMessage(ls) ==
    ParseMessage(StripLines(SelectSeq(Walk(ParseMessage(ls)), IsDecryptedPart)[1].payload))

PlainParts(msg) ==
    SelectSeq(Walk(msg), LAMBDA p : p.ctype = "text/plain" /\ StripLines(p.payload) # <<>>)

\* a multipart/encrypted text whose octet-stream part holds a MIME sub-message
\* with a Subject header of its own and a text/plain body
HoldsInnerMessage(ls) ==
    /\ ParseMessage(ls).ctype = "multipart/encrypted"
    /\ SelectSeq(Walk(ParseMessage(ls)), IsDecryptedPart) # <<>>
    /\ GetAll(InnerMessage(ls).hdrs, "content-type") # <<>>
    /\ GetAll(InnerMessage(ls).hdrs, "subject") # <<>>
    /\ PlainParts(InnerMessage(ls)) # <<>>

\* C1: for every multipart/encrypted message whose octet-stream part holds a
\* decrypted MIME sub-message with its own Subject and a text/plain body,
\* unwrap_pgp_mime returns status Unwrapped and parse_raw_email of the returned
\* content yields the inner Subject and the inner text/plain body, with
\* from_addr and message_id those of the outer headers.
C1_UnwrapExposesInner ==
    (ppc = "parsed" /\ HoldsInnerMessage(raw)) =>
        /\ status = "unwrapped"
        /\ parsed.ok
        /\ parsed.subject = GetHeader(InnerMessage(raw).hdrs, "subject")
        /\ parsed.body = StripLines(PlainParts(InnerMessage(raw))[1].payload)
        /\ parsed.from_addr = ParseAddr(GetHeader(ParseMessage(raw).hdrs, "from")).addr
        /\ parsed.message_id = GetHeader(ParseMessage(raw).hdrs, "message-id")

\* empty after trimming, or any number of "Re:" (each with optional white
\* space after it) followed by two or more dots and nothing else
LooksLikePlaceholder(subject) ==
    \/ Strip(subject) = <<>>
    \/ \E d \in 1..Len(Strip(subject)) :
         /\ Len(Strip(subject)) - d + 1 >= 2
         /\ \A i \in d..Len(Strip(subject)) : Strip(subject)[i] = "."
         /\ \A i \in 1..d - 1 : Strip(subject)[i] = "Re:" \/ IsSpace(Strip(subject)[i])
         /\ d > 1 => Strip(subject)[1] = "Re:"

\* recovery yields a value
Recoverable(ls) ==
    /\ ExtractProtectedSubject(ls).found
    /\ ExtractProtectedSubject(ls).txt # <<>>

\* C2: the selected Subject is replaced by the protected-headers subject if and
\* only if the selected Subject is a placeholder and recovery yields a value;
\* a non-placeholder Subject is returned as selected, and so is a placeholder
\* with nothing recoverable.
C2_PlaceholderResolution ==
    (ParseDone /\ parsed.ok) =>
        parsed.subject =
            IF LooksLikePlaceholder(SelectedSubject(ParseMessage(ParsedText)).txt)
               /\ Recoverable(ParsedText)
            THEN ExtractProtectedSubject(ParsedText).txt
            ELSE SelectedSubject(ParseMessage(ParsedText)).txt

\* a placeholder Subject was replaced by a recovered one; a non-placeholder
\* Subject with a recoverable one beside it was kept
C2_Witness ==
    /\ ParseDone /\ parsed.ok
    /\ Recoverable(ParsedText)
    /\ LooksLikePlaceholder(SelectedSubject(ParseMessage(ParsedText)).txt)
    /\ parsed.subject = ExtractProtectedSubject(ParsedText).txt
    /\ parsed.subject # SelectedSubject(ParseMessage(ParsedText)).txt

\* C3: parse_raw_email never raises: for every input text it returns a record
\* with every field present.
C3_NeverRaises ==
    ParseDone =>
        /\ parsed.ok
        /\ DOMAIN parsed = {"ok", "exc", "from_addr", "from_name", "subject", "message_id",
                            "date", "in_reply_to", "body", "raw_message"}

\* the Message-ID of a file: the first Message-ID header of its header block, trimmed
MessageIdOf(f) == Strip(GetHeader(HeadersOf(dir[f]), "message-id"))

Entries(l) == {l[i] : i \in 1..Len(l)}

\* the store was asked about the file's Message-ID and held no record of it
CheckedAbsent(f) ==
    /\ MessageIdOf(f) # <<>>
    /\ \E q \in Entries(log.queried) :
         q.file = f /\ q.message_id = MessageIdOf(f) /\ q.message_id \notin q.store

FilesWith(o) == {f \in DOMAIN outcome : outcome[f] = o}

\* each counter counts the files with its outcome
CountersMatch ==
    /\ no_message_id = Cardinality(FilesWith("no_message_id"))
    /\ already_imported = Cardinality(FilesWith("already_imported"))
    /\ copied = Cardinality(FilesWith("copied"))

\* C4: a file is handed to gpg or to the presentation, and counted as copied,
\* only if its trimmed Message-ID is not blank and the store held no record of
\* it when it was asked; a file with a blank Message-ID counts only as
\* no_message_id and the store is not asked about it; a file whose message_id
\* the store holds counts only as already_imported.
C4_SkipRules ==
    /\ CountersMatch
    /\ \A c \in Entries(log.gpg) : CheckedAbsent(c.file)
    /\ \A e \in Entries(log.shown) : CheckedAbsent(e.file)
    /\ \A f \in FilesWith("copied") : CheckedAbsent(f)
    /\ \A f \in DOMAIN outcome :
         MessageIdOf(f) = <<>> =>
            /\ outcome[f] \in {"unseen", "no_message_id"}
            /\ f \in Entries(log.read) => outcome[f] = "no_message_id"
            /\ \A q \in Entries(log.queried) : q.file # f
    /\ \A q \in Entries(log.queried) :
         q.message_id \in q.store =>
            /\ outcome[q.file] = "already_imported"
            /\ \A c \in Entries(log.gpg) : c.file # q.file
            /\ \A e \in Entries(log.shown) : e.file # q.file

\* a file was presented and imported, and a later file with the same
\* Message-ID was then skipped as already imported
C4_Witness ==
    /\ pos = 2
    /\ outcome[files[1]] = "copied"
    /\ outcome[files[2]] = "already_imported"
    /\ MessageIdOf(files[1]) = MessageIdOf(files[2])
    /\ \E q \in Entries(log.queried) : q.file = files[1] /\ q.message_id \notin q.store

\* the number of files whose step has ended
StepsEnded == IF pc \in {"query", "process", "present", "raised"} THEN pos - 1 ELSE pos

\* C5: every file is visited at most once, in sorted order, and its step ends
\* in exactly one outcome that increments exactly one counter; after each
\* file's step the counters add up to the number of files visited, and to the
\* number of listed files when the run completes without an operator abort.
C5_OneOutcomePerFile ==
    /\ pc \notin {"start", "idle"} =>
         /\ Len(files) = Len(dir)
         /\ Entries(files) = 1..Len(dir)
         /\ \A i, j \in 1..Len(files) :
              i < j => DateKey(dir[files[i]]) <= DateKey(dir[files[j]])
    /\ log.read = SubSeq(files, 1, pos)
    /\ CountersMatch
    /\ no_message_id + already_imported + copied = StepsEnded
    /\ \A i \in 1..Len(files) : outcome[files[i]] # "unseen" <=> i <= StepsEnded
    /\ (pc = "done" /\ log.cancelled = 0) =>
         no_message_id + already_imported + copied = Len(dir)

\* a run over two files that the sort reordered ended with two different outcomes
C5_Witness ==
    /\ pc = "done" /\ log.cancelled = 0
    /\ files = <<2, 1>>
    /\ outcome[1] # outcome[2]
    /\ no_message_id + already_imported + copied = 2

\* nothing was done about the files behind position k
UntouchedAfter(k) ==
    \A i \in k + 1..Len(files) :
        /\ outcome[files[i]] = "unseen"
        /\ files[i] \notin Entries(log.read)
        /\ \A q \in Entries(log.queried) : q.file # files[i]
        /\ \A c \in Entries(log.gpg) : c.file # files[i]
        /\ \A e \in Entries(log.shown) : e.file # files[i]

\* C6: when the operator cancels at the prompt that follows file k, no file
\* after k is read, decrypted, presented or counted, file k stays counted as
\* copied, and the run ends by emitting its summary counts.
C6_CancelStopsRun ==
    /\ [](log.cancelled > 0 =>
            /\ pos = log.cancelled
            /\ pc \in {"summary", "done"}
            /\ outcome[files[pos]] = "copied"
            /\ copied = Cardinality(FilesWith("copied"))
            /\ UntouchedAfter(pos)
            /\ pc = "done" => summary = <<[copied |-> copied,
                                           total_emails |-> Len(files) - no_message_id,
                                           total_imported |-> already_imported + copied,
                                           remaining |-> Len(files) - no_message_id
                                                         - (already_imported + copied)]>>)
    /\ (log.cancelled > 0) ~> (pc = "done" /\ summary # <<>>)

\* the operator cancelled after the first of two files and the summary was emitted
C6_Witness ==
    /\ log.cancelled = 1
    /\ Len(files) = 2
    /\ pc = "done"
    /\ summary # <<>>
    /\ copied = 1

\* the exit codes gpg returned for the blocks of a file, in the order of the calls
CodesFor(f) ==
    [i \in 1..Len(SelectSeq(log.gpg, LAMBDA c : c.file = f)) |->
        SelectSeq(log.gpg, LAMBDA c : c.file = f)[i].rc]

\* the hand-off the run has just made
LastShown == log.shown[Len(log.shown)]

C9_EncryptedIsPresented ==
    /\ [][(pc = "process" /\ pc' # "raised" /\ status' = "encrypted") =>
            /\ pc' = "present"
            /\ content' = DecryptPgpBlocks(raw, returncodes')
            /\ [file |-> files[pos], line |-> "PGP encrypted (could not decrypt)."]
                  \in Entries(log'.said)]_vars
    /\ [][(pc = "present" /\ status = "encrypted" /\ pc' # "raised") =>
            /\ pc' = "prompt"
            /\ log'.shown = Append(log.shown, [file |-> files[pos], content |-> content,
                                                status |-> "encrypted"])
            /\ copied' = copied + 1
            /\ outcome'[files[pos]] = "copied"]_vars
    /\ [](\A e \in Entries(log.shown) :
            (e.status = "encrypted" /\ pc # "raised") => outcome[e.file] = "copied")

\* a file that gpg could not decrypt was presented in its armored form and counted
C9_Witness ==
    \E e \in Entries(log.shown) :
        /\ e.status = "encrypted"
        /\ e.content = dir[e.file]
        /\ PgpBlocks(e.content) # <<>>
        /\ outcome[e.file] = "copied"
        /\ copied >= 1

\* the first END line at least two lines below line i; 0 when there is none
CloseOf(ls, i) ==
    IF \E e \in i + 2..Len(ls) : ls[e].k = "end"
    THEN CHOOSE e \in i + 2..Len(ls) :
            ls[e].k = "end" /\ \A d \in i + 2..e - 1 : ls[d].k # "end"
    ELSE 0

\* the lines at which an armored block starts: a BEGIN line that an END line
\* can close and that lies in no block started before it
BlockStarts(ls) ==
    LET Sel[i \in 0..Len(ls)] ==
            IF i = 0 THEN {}
            ELSE IF /\ ls[i].k = "begin"
                    /\ CloseOf(ls, i) # 0
                    /\ \A s \in Sel[i - 1] : CloseOf(ls, s) < i
                 THEN Sel[i - 1] \cup {i}
                 ELSE Sel[i - 1]
    IN Sel[Len(ls)]

\* the exit code of the call of gpg for the block that starts at line s
CodeOf(ls, codes, s) == codes[Cardinality({t \in BlockStarts(ls) : t <= s})]

\* what becomes of line l
LineAfterDecryption(ls, codes, l) ==
    IF \E s \in BlockStarts(ls) : s <= l /\ l <= CloseOf(ls, s) /\ CodeOf(ls, codes, s) \in {0, 2}
    THEN IF l \in BlockStarts(ls)
         THEN GpgStdout(SubSeq(ls, l, CloseOf(ls, l)))
         ELSE <<>>
    ELSE <<ls[l]>>

\* C7: decrypt_pgp_blocks replaces each armored block by gpg's output if and
\* only if that block's decryption exits with code 0 or 2; a block that exits
\* with another code stays as it is, the text outside the blocks stays as it
\* is, and a failed block does not keep the other blocks from being decrypted.
C7_BlocksReplacedOnZeroOrTwo ==
    ppc = "decrypted" =>
        /\ Len(returncodes) = Cardinality(BlockStarts(raw))
        /\ content = Concat([l \in 1..Len(raw) |-> LineAfterDecryption(raw, returncodes, l)])

\* of two blocks the first failed and stayed, the second was decrypted
C7_Witness ==
    /\ ppc = "decrypted"
    /\ Len(returncodes) = 2
    /\ returncodes[1] = 1
    /\ returncodes[2] = 2
    /\ SubSeq(content, 1, 3) = SubSeq(raw, 1, 3)
    /\ content # raw
    /\ \E i \in 1..Len(content) : content[i] = Text(<<"secret">>)

\* C10: strip_large_attachments returns its input unchanged for every message
\* whose top-level content type is multipart/encrypted, whatever its size.
C10_EncryptedNotStripped ==
    (ppc = "stripped" /\ ContentTypeOf(HeadersOf(raw)) = "multipart/encrypted") =>
        content = raw

\* a multipart/encrypted message above the ceiling, with a part the loop
\* would replace, came back unchanged
C10_Witness ==
    /\ ppc = "stripped"
    /\ ContentTypeOf(HeadersOf(raw)) = "multipart/encrypted"
    /\ TextSize(raw) > MaxSize
    /\ ParseMessage(raw).multi
    /\ \E i \in 1..Len(raw) : raw[i].n > MaxSize
    /\ content = raw


\* the placeholder notes a text holds
Notes(ls) == {i \in 1..Len(ls) : ls[i].val # <<>> /\ ls[i].val[1] = "[attachment stripped: "}

\* every leaf part of the text is text/plain or text/html
OnlyTextLeaves(ls) ==
    \A i \in 1..Len(Walk(ParseMessage(ls))) :
        \/ Walk(ParseMessage(ls))[i].multi
        \/ Walk(ParseMessage(ls))[i].ctype \in {"text/plain", "text/html"}

\* C11 as stated: for every content that is not multipart/encrypted the content
\* that strip_large_attachments returns has a size of at most max_size.
C11_SizeAtMostMax ==
    (ppc = "stripped" /\ ContentTypeOf(HeadersOf(raw)) # "multipart/encrypted") =>
        TextSize(content) <= MaxSize

\* C11 amended: for every content that is not multipart/encrypted the returned
\* content has a size of at most max_size, unless the content is no multipart
\* message and is returned as it is, or it is still above the ceiling with no
\* leaf part left that is neither text/plain nor text/html.
C11_SizeOrNothingLeft ==
    (ppc = "stripped" /\ ContentTypeOf(HeadersOf(raw)) # "multipart/encrypted") =>
        \/ TextSize(content) <= MaxSize
        \/ ~ParseMessage(raw).multi /\ content = raw
        \/ ParseMessage(raw).multi /\ OnlyTextLeaves(content)

\* a multipart/mixed message above the ceiling came under it after the loop
\* had replaced two parts
C11_Witness ==
    /\ ppc = "stripped"
    /\ ContentTypeOf(HeadersOf(raw)) = "multipart/mixed"
    /\ TextSize(raw) > MaxSize
    /\ TextSize(content) <= MaxSize
    /\ Cardinality(Notes(content)) = 2

\* the payloads of the application/octet-stream parts of a text
OctetTexts(ls) ==
    {Walk(ParseMessage(ls))[i].payload :
        i \in {j \in 1..Len(Walk(ParseMessage(ls))) :
                 /\ Walk(ParseMessage(ls))[j].ctype = "application/octet-stream"
                 /\ ~Walk(ParseMessage(ls))[j].multi}}

\* the payload is empty, or begins with the armor marker once it is trimmed
EmptyOrArmored(p) ==
    \/ \A i \in 1..Len(p) : p[i].k = "blank"
    \/ \E i \in 1..Len(p) : p[i].k = "begin" /\ \A j \in 1..i - 1 : p[j].k = "blank"

\* C12: unwrap_pgp_mime returns status None exactly when the top-level content
\* type is not multipart/encrypted, and status Encrypted exactly when it is
\* and the application/octet-stream payload is absent, empty, or begins, once
\* trimmed, with the armor marker; in both cases the content is the input.
C12_NoneAndEncrypted ==
    ppc = "unwrapped" =>
        /\ status = "none" <=> ContentTypeOf(HeadersOf(raw)) # "multipart/encrypted"
        /\ status = "encrypted" <=>
              /\ ContentTypeOf(HeadersOf(raw)) = "multipart/encrypted"
              /\ \A p \in OctetTexts(raw) : EmptyOrArmored(p)
        /\ status \in {"none", "encrypted"} => content = raw

\* an armored payload behind two empty lines was reported as still encrypted
C12_Witness ==
    /\ ppc = "unwrapped"
    /\ status = "encrypted"
    /\ content = raw
    /\ \E p \in OctetTexts(raw) : Len(p) > 2 /\ p[1].k = "blank" /\ p[3].k = "begin"

\* the content types of the parts of a text
PartTypes(ls) == {Walk(ParseMessage(ls))[i].ctype : i \in 1..Len(Walk(ParseMessage(ls)))}

\* the text has no multipart/encrypted layer and keeps the transport headers of the input
LayerRemoved(ls, input) ==
    /\ ContentTypeOf(HeadersOf(ls)) # "multipart/encrypted"
    /\ "application/pgp-encrypted" \notin PartTypes(ls)
    /\ \A h \in {"from", "date", "message-id"} :
          /\ GetHeader(HeadersOf(input), h) # <<>>
          /\ GetHeader(HeadersOf(ls), h) = GetHeader(HeadersOf(input), h)

\* the text holds an empty line that another line follows ("\n\n")
HasEmptyLine(ls) == \E j \in 2..Len(ls) - 1 : ls[j].k = "blank"

\* the decrypted payload declares itself multipart/encrypted
PayloadEncrypted(ls) ==
    \E p \in OctetTexts(ls) :
        ContentTypeOf(HeadersOf(StripLines(p))) = "multipart/encrypted"

SubjectsOf(ls) == GetAll(HeadersOf(ls), "subject")

\* the position of the longest value, the first one among equally long ones
LongestFirst(vs) ==
    CHOOSE i \in 1..Len(vs) :
        /\ \A j \in 1..Len(vs) : SumLen(vs[j]) <= SumLen(vs[i])
        /\ \A j \in 1..i - 1 : SumLen(vs[j]) < SumLen(vs[i])

\* C14: of more than one Subject header parse_raw_email selects the longest by
\* character count, the first among equally long ones, and decodes it; the
\* returned subject is that value unless the placeholder recovery replaces it.
C14_LongestSubjectFirst ==
    (ParseDone /\ Len(SubjectsOf(ParsedText)) > 1) =>
        LET chosen == DecodeRfc2047(SubjectsOf(ParsedText)[LongestFirst(SubjectsOf(ParsedText))])
        IN  /\ parsed.ok => chosen.ok
            /\ (parsed.ok /\ ~(LooksLikePlaceholder(chosen.txt) /\ Recoverable(ParsedText)))
                  => parsed.subject = chosen.txt
            /\ (~chosen.ok) => ~parsed.ok

\* of two different Subject values of the same length the first was returned
C14_Witness ==
    /\ ParseDone /\ parsed.ok
    /\ Len(SubjectsOf(ParsedText)) = 2
    /\ SumLen(SubjectsOf(ParsedText)[1]) = SumLen(SubjectsOf(ParsedText)[2])
    /\ SubjectsOf(ParsedText)[1] # SubjectsOf(ParsedText)[2]
    /\ parsed.subject = SubjectsOf(ParsedText)[1]

\* the white-space separated tokens of a header value
Tokens(v) == SelectSeq(v, LAMBDA a : ~IsSpace(a))

\* C15: the record parse_raw_email returns has a references field that holds
\* the white-space separated message-ID tokens of the References header in
\* header order, and the empty list when there is no such header.
C15_ReferencesField ==
    (ParseDone /\ parsed.ok) =>
        /\ "references" \in DOMAIN parsed
        /\ parsed.references = Tokens(GetHeader(HeadersOf(ParsedText), "references"))

\* the Date value of the text that was parsed
DateOf(ls) == GetHeader(HeadersOf(ls), "date")

\* the hours the Date header states, when it states a date that exists; else 0
StatedHours(ls) ==
    IF DateOf(ls) # <<>> /\ LocalHours(DateOf(ls)[1]) \in 1..744
    THEN LocalHours(DateOf(ls)[1]) ELSE 0

\* the Date header states a zone
StatesZone(ls) == DateOf(ls) # <<>> /\ ZoneOffset(DateOf(ls)[Len(DateOf(ls))]).zone

\* C16: the date parse_raw_email returns is absent or timezone-aware: a Date
\* that parses but states no usable zone is taken as UTC, and a Date that
\* neither the primary nor the fallback parse accepts gives an absent date
\* and no error.
C16_DateAbsentOrAware ==
    ParseDone =>
        /\ parsed.ok => (~parsed.date.known \/ parsed.date.aware)
        /\ (parsed.ok /\ StatedHours(ParsedText) > 0 /\ ~StatesZone(ParsedText))
              => parsed.date = [known |-> TRUE, aware |-> TRUE,
                                local |-> StatedHours(ParsedText), offset |-> 0]
        /\ (DateOf(ParsedText) # <<>> /\ StatedHours(ParsedText) = 0)
              => (parsed.ok /\ ~parsed.date.known)

\* ------------------------------------------------------------------ C17

\* every text/plain part of a message, in the order of the walk
TextPlainParts(msg) == SelectSeq(Walk(msg), LAMBDA p : p.ctype = "text/plain")

\* the text a payload stands for: its transfer encoding undone, its bytes read
\* in the declared charset, with a replacement for what the charset cannot read
DecodedText(p) ==
    IF CteOf(p.hdrs) \in {"quoted-printable", "base64"}
    THEN [i \in 1..Len(p.payload) |->
            [k |-> IF p.payload[i].k \in {"qp", "b64"} THEN "text" ELSE p.payload[i].k,
             name |-> p.payload[i].name,
             val |-> DecodeBytes(p.payload[i].val,
                                 IF KnownCharset(CharsetOf(p.hdrs))
                                 THEN CharsetOf(p.hdrs) ELSE "us-ascii"),
             n |-> p.payload[i].n]]
    ELSE p.payload

FirstPlainText(plain) == IF plain = <<>> THEN <<>> ELSE StripLines(DecodedText(plain[1]))

IsPlainMultipart(ls) ==
    ParseMessage(ls).multi /\ ParseMessage(ls).ctype # "multipart/encrypted"

\* C17: the body of a multipart message that is not multipart/encrypted is the
\* decoded, trimmed payload of the first text/plain part of the walk, and the
\* empty text when the tree has no text/plain part
C17_FirstPlainPart ==
    (ParseDone /\ parsed.ok /\ IsPlainMultipart(ParsedText))
        => parsed.body = FirstPlainText(TextPlainParts(ParseMessage(ParsedText)))

\* ------------------------------------------------------------------ C18

\* the lines of a text that are still in quoted-printable or base64 form
EncodedLines(ls) == {i \in 1..Len(ls) : ls[i].k \in {"qp", "b64"}}

\* C18: the body of every message, a multipart/encrypted one included, is
\* empty or decoded text; no line of it is still in quoted-printable or
\* base64 form
C18_BodyDecoded ==
    (ParseDone /\ parsed.ok) => EncodedLines(parsed.body) = {}

\* ------------------------------------------------------------------ C19

\* the instant the Date header of a mail file states, in hours of UTC, a date
\* without a zone read as UTC; 0 when there is no Date or none that exists
Instant(ls) ==
    IF StatedHours(ls) = 0 THEN 0
    ELSE StatedHours(ls)
         - (IF StatesZone(ls) THEN ZoneOffset(DateOf(ls)[Len(DateOf(ls))]).hours ELSE 0)

Undated(ls) == StatedHours(ls) = 0

\* C19: the driver takes the files in ascending order of the instants their
\* Date headers state, a date without a zone as UTC; a file without a Date, or
\* with one that does not parse, comes before every file with a parseable
\* Date; the sort gives an order for every directory
C19_AscendingInstants ==
    pc \notin {"start", "idle", "returned"} =>
        /\ Entries(files) = 1..Len(dir)
        /\ Len(files) = Len(dir)
        /\ \A i, j \in 1..Len(files) :
             /\ i < j => Instant(dir[files[i]]) <= Instant(dir[files[j]])
             /\ (Undated(dir[files[i]]) /\ ~Undated(dir[files[j]])) => i < j

\* the sort moved a +0200 date that shows the later hour in front of a +0000 date
C19_Witness ==
    /\ pc = "next" /\ pos = 0 /\ Len(files) = 2
    /\ files = <<2, 1>>
    /\ StatesZone(dir[1]) /\ StatesZone(dir[2])
    /\ StatedHours(dir[2]) > StatedHours(dir[1])
    /\ Instant(dir[2]) < Instant(dir[1])

\* ------------------------------------------------------------------ C20

\* the step is a POST to the view, made with a parsed email in the session
PostTo(view) ==
    /\ response'.view = view
    /\ response'.method = "POST"
    /\ session.parsed_email.ok

\* an entry holds the message_id of the parsed email in the session
HeldByEntry ==
    \E i \in 1..Len(db.entries) : db.entries[i].message_id = session.parsed_email.message_id

NothingCreated ==
    /\ Len(db'.entries) = Len(db.entries)
    /\ Len(db'.cards) = Len(db.cards)
    /\ Len(db'.correspondents) = Len(db.correspondents)
    /\ session'.parsed_email = session.parsed_email

Rejected == NothingCreated /\ response'.answer = "error:already-imported"

\* the step added an entry for the parsed email and took it out of the session
Imported ==
    /\ Len(db'.entries) = Len(db.entries) + 1
    /\ db'.entries[Len(db'.entries)].message_id = session.parsed_email.message_id
    /\ db'.entries[Len(db'.entries)].raw_message = session.parsed_email.raw_message
    /\ ~session'.parsed_email.ok
    /\ response'.answer = "redirect:card_detail"

\* the card of the request exists
CardExists == response'.id \in 1..Len(db.cards)

\* a board exists, and the column of the request, or without one a first column
ColumnExists ==
    /\ db.board
    /\ IF response'.id = 0 THEN db.columns # {} ELSE response'.id \in db.columns

\* C20 as stated: a POST to confirm_import or confirm_import_new whose parsed
\* email has a message_id that is not empty and that an entry holds creates no
\* entry, card or correspondent, keeps the parsed email in the session and
\* answers with the 'already been imported' error; with an empty message_id
\* the email is imported
C20_DuplicateRejected ==
    [][/\ (\/ PostTo("confirm_import") \/ PostTo("confirm_import_new"))
          => /\ (session.parsed_email.message_id # <<>> /\ HeldByEntry) => Rejected
             /\ session.parsed_email.message_id = <<>> => Imported]_vars

\* C20, amended: the same for a POST to confirm_import for a card that exists
\* and for a POST to confirm_import_new; with an empty message_id the email is
\* imported when the card of confirm_import exists and, for
\* confirm_import_new, when a board and the column to use exist
C20_DuplicateRejectedForTarget ==
    [][/\ (PostTo("confirm_import") /\ CardExists)
            => /\ (session.parsed_email.message_id # <<>> /\ HeldByEntry) => Rejected
               /\ session.parsed_email.message_id = <<>> => Imported
       /\ PostTo("confirm_import_new")
            => /\ (session.parsed_email.message_id # <<>> /\ HeldByEntry) => Rejected
               /\ (session.parsed_email.message_id = <<>> /\ ColumnExists) => Imported]_vars

\* a mail without a Message-ID was imported, and a later POST to
\* confirm_import_new with the Message-ID of an entry was answered with the error
C20_Witness ==
    /\ response = Answer("confirm_import_new", "POST", 0, "error:already-imported")
    /\ session.parsed_email.ok
    /\ Len(db.entries) = 2
    /\ db.entries[2].message_id = <<>>
    /\ db.entries[1].message_id = session.parsed_email.message_id

\* ------------------------------------------------------------------ C21

\* the step is the admin action
MergeStep == response'.view = "merge_correspondents"

\* the rows of the queryset, before the step
SelectedRows == {r \in db.correspondents : r.pk \in response'.id}

SameBoard(rows) == \A r, s \in rows : r.board = s.board

PrimaryPk == Least(Pks(SelectedRows))

NoDuplicates(list) == \A i, j \in 1..Len(list) : list[i] = list[j] => i = j

\* exactly the selected row with the lowest pk is left of the selected rows
PrimaryLeft ==
    Pks(db'.correspondents) = Pks(db.correspondents) \ (Pks(SelectedRows) \ {PrimaryPk})

\* each entry is kept; the ones the selected rows sent are the primary's
EntriesReassigned ==
    /\ Len(db'.entries) = Len(db.entries)
    /\ \A i \in 1..Len(db.entries) :
          IF db.entries[i].sender \in Pks(SelectedRows)
          THEN db'.entries[i].sender = PrimaryPk
          ELSE db'.entries[i] = db.entries[i]

\* the addresses of the selected rows other than the primary's email: the
\* emails, and the aliases
Collected ==
    ({r.email : r \in SelectedRows}
     \cup UNION {{r.aliases[i] : i \in 1..Len(r.aliases)} : r \in SelectedRows})
    \ {RowOf(db.correspondents, PrimaryPk).email}

AliasesCollected ==
    \A a \in Collected : InList(a, RowOf(db'.correspondents, PrimaryPk).aliases)

AliasesClean(row) == NoDuplicates(row.aliases) /\ ~InList(row.email, row.aliases)

\* C21 as stated: merging two or more correspondents of one board leaves of
\* them exactly the one with the lowest pk; every entry one of them sent then
\* has it as sender and no entry is lost; its aliases hold every merged
\* correspondent's email and aliases, none twice and not its own email.  A
\* selection of fewer than two, or of several boards, changes nothing
C21_Merged ==
    [][MergeStep =>
          IF Cardinality(SelectedRows) >= 2 /\ SameBoard(SelectedRows)
          THEN /\ PrimaryLeft
               /\ EntriesReassigned
               /\ AliasesCollected
               /\ AliasesClean(RowOf(db'.correspondents, PrimaryPk))
          ELSE db' = db]_vars

\* C21, amended: the same, the primary's aliases holding none twice and not
\* its own email when that was so of its aliases before the merge
C21_MergedCleanPrimary ==
    [][MergeStep =>
          IF Cardinality(SelectedRows) >= 2 /\ SameBoard(SelectedRows)
          THEN /\ PrimaryLeft
               /\ EntriesReassigned
               /\ AliasesCollected
               /\ AliasesClean(RowOf(db.correspondents, PrimaryPk))
                    => AliasesClean(RowOf(db'.correspondents, PrimaryPk))
          ELSE db' = db]_vars

\* three correspondents were merged: the primary is left, with the emails and
\* the alias of the others, their four entries and their core team memberships
C21_Witness ==
    /\ response.view = "merge_correspondents"
    /\ response.id = {1, 2, 3}
    /\ response.answer = "SUCCESS"
    /\ Pks(db.correspondents) = {1}
    /\ RowOf(db.correspondents, 1).aliases
         = <<"b@example.com", "b2@example.com", "c@example.com">>
    /\ \A i \in 1..4 : db.entries[i].sender = 1
    /\ db.entries[5].sender = 0
    /\ db.core_team = {<<1, 1>>, <<2, 1>>}

\* ------------------------------------------------------------------ C22

\* the hand-off of the current file was made
CurrentPresented ==
    \E i \in 1..Len(log.shown) : log.shown[i].file = files[pos]

\* C22: an interrupt takes effect only at the prompt: a run never ends inside
\* the processing of a file before that file was handed to the operator (the
\* one exception a run can show is the hand-off itself failing)
C22_InterruptOnlyAtPrompt ==
    (pc = "raised" /\ pos > 0) => CurrentPresented

\* ------------------------------------------------------------------ C23

\* the lines before the first empty line that another line follows
HeaderBlock(ls) ==
    SubSeq(ls, 1, Least({j \in 2..Len(ls) - 1 : ls[j].k = "blank"}) - 1)

\* the line that line i of the block belongs to: itself, or for a continuation
\* line the nearest line above it that is none (0: there is none)
OwnerOf(block, i) ==
    IF \E j \in 1..i : block[j].k # "cont"
    THEN Greatest({j \in 1..i : block[j].k # "cont"}) ELSE 0

\* line i is a MIME content header, or a continuation line of one
OfContentHeader(block, i) ==
    /\ OwnerOf(block, i) # 0
    /\ block[OwnerOf(block, i)].k = "hdr"
    /\ Lower(block[OwnerOf(block, i)].name)
         \in {"content-type", "content-transfer-encoding", "content-disposition"}

RECURSIVE KeptFrom(_, _)
KeptFrom(block, i) ==
    IF i > Len(block) THEN <<>>
    ELSE (IF OfContentHeader(block, i) THEN <<>> ELSE <<block[i]>>) \o KeptFrom(block, i + 1)

\* the first lines of the decrypted payloads, trimmed
PayloadStarts(ls) ==
    {StripLines(p)[1] : p \in {q \in OctetTexts(ls) : StripLines(q) # <<>>}}

\* unwrap_pgp_mime spliced the text
Spliced == ppc = "unwrapped" /\ status = "unwrapped" /\ HasEmptyLine(raw)

\* C23: the lines a splice keeps of the header block are its lines in their
\* order and as they are, without the headers named Content-Type,
\* Content-Transfer-Encoding or Content-Disposition in any case and without
\* their continuation lines; continuation lines of kept headers are kept; what
\* follows the kept lines is the payload or the synthesized header
C23_HeadersKept ==
    Spliced =>
        /\ Len(content) > Len(KeptFrom(HeaderBlock(raw), 1))
        /\ SubSeq(content, 1, Len(KeptFrom(HeaderBlock(raw), 1)))
             = KeptFrom(HeaderBlock(raw), 1)
        /\ content[Len(KeptFrom(HeaderBlock(raw), 1)) + 1]
             \in PayloadStarts(raw) \cup {SynthContentType}

\* a block with a folded Received header, which is kept with its continuation
\* line, and with headers spelled content-transfer-encoding and
\* CONTENT-DISPOSITION, which are dropped with theirs
C23_Witness ==
    /\ Spliced
    /\ \E i \in 1..Len(HeaderBlock(raw)) :
          /\ HeaderBlock(raw)[i].k = "cont"
          /\ ~OfContentHeader(HeaderBlock(raw), i)
          /\ \E j \in 1..Len(content) : content[j] = HeaderBlock(raw)[i]
    /\ \E i \in 1..Len(HeaderBlock(raw)) :
          /\ HeaderBlock(raw)[i].k = "cont"
          /\ HeaderBlock(raw)[OwnerOf(HeaderBlock(raw), i)].name = "CONTENT-DISPOSITION"
          /\ \A j \in 1..Len(content) : content[j] # HeaderBlock(raw)[i]
    /\ \A j \in 1..Len(content) :
          content[j].k = "hdr" => content[j].name # "content-transfer-encoding"

\* ------------------------------------------------------------------ C24

\* the payload of the application/octet-stream part that is not blank
DecryptedPayload(ls) == CHOOSE p \in OctetTexts(ls) : StripLines(p) # <<>>

\* the payload begins with 'Content-Type:' or 'MIME-Version:'
BeginsAsMime(p) ==
    p # <<>> /\ p[1].k = "hdr" /\ p[1].name \in {"Content-Type", "MIME-Version"}

\* at how many places of the text the lines occur
Occurrences(ls, lines) ==
    Cardinality({i \in 1..Len(ls) - Len(lines) + 1 :
                    SubSeq(ls, i, i + Len(lines) - 1) = lines})

\* the kept headers, then the payload, with the synthesized header and an empty
\* line between them unless the payload begins as a MIME message
Joined(kept, payload) ==
    IF BeginsAsMime(payload) THEN kept \o payload
    ELSE kept \o <<SynthContentType, Blank>> \o payload

\* no line of the one text is a line of the other
NoLineShared(ls, lines) ==
    \A i \in 1..Len(ls), j \in 1..Len(lines) : ls[i] # lines[j]

\* C24 as stated: a splice gives the filtered headers, a newline and the
\* decrypted payload if the payload begins with 'Content-Type:' or
\* 'MIME-Version:', else the filtered headers, the synthesized 'Content-Type:
\* text/plain; charset=UTF-8' header, an empty line and the payload; the payload
\* occurs in the result exactly once, after all kept headers
C24_PayloadSpliced ==
    Spliced =>
        /\ content = Joined(KeptFrom(HeaderBlock(raw), 1), DecryptedPayload(raw))
        /\ Occurrences(content, DecryptedPayload(raw)) = 1

\* C24, amended: the same of the decrypted payload trimmed of the white space
\* around it, which ends the result; it occurs there exactly once unless
\* lines of it are among the kept lines
C24_TrimmedPayloadSpliced ==
    Spliced =>
        /\ content = Joined(KeptFrom(HeaderBlock(raw), 1),
                            StripLines(DecryptedPayload(raw)))
        /\ NoLineShared(KeptFrom(HeaderBlock(raw), 1), StripLines(DecryptedPayload(raw)))
              => Occurrences(content, StripLines(DecryptedPayload(raw))) = 1

\* the payload occurs twice in the result: its only empty line is behind it
C24_TwiceWitness ==
    /\ Spliced
    /\ Occurrences(content, StripLines(DecryptedPayload(raw))) = 2

\* a payload that begins with 'Content-Type:' behind an empty line was joined
\* to the headers as it is without the empty lines around it
C24_Witness ==
    /\ Spliced
    /\ DecryptedPayload(raw)[1].k = "blank"
    /\ BeginsAsMime(StripLines(DecryptedPayload(raw)))
    /\ content = KeptFrom(HeaderBlock(raw), 1) \o StripLines(DecryptedPayload(raw))
    /\ content[Len(content)].k = "text"

\* ------------------------------------------------------------------ C25

\* the text is multipart/encrypted with a decrypted payload: one that is not
\* blank and does not begin, once trimmed, with the armor marker
HasDecryptedPayload(ls) ==
    /\ ContentTypeOf(HeadersOf(ls)) = "multipart/encrypted"
    /\ \E p \in OctetTexts(ls) : ~EmptyOrArmored(p)

\* the lines of the header section: the header and continuation lines the
\* text begins with
RECURSIVE HeaderSection(_, _)
HeaderSection(ls, i) ==
    IF i <= Len(ls) /\ ls[i].k \in {"hdr", "cont"} THEN HeaderSection(ls, i + 1) ELSE i - 1

\* an empty line separates the headers from the body
SeparatedByBlank(ls) ==
    /\ HeaderSection(ls, 1) + 1 < Len(ls)
    /\ ls[HeaderSection(ls, 1) + 1].k = "blank"

\* C25 as stated: a multipart/encrypted message with a decrypted payload and no
\* empty line between its headers and its body is returned as it is, with
\* status Unwrapped
C25_UnchangedWithoutSeparator ==
    (ppc = "unwrapped" /\ HasDecryptedPayload(raw) /\ ~SeparatedByBlank(raw))
        => (status = "unwrapped" /\ content = raw)

\* C25, amended: the same for a message that holds no empty line at all (no
\* two newlines in a row)
C25_UnchangedWithoutEmptyLine ==
    (ppc = "unwrapped" /\ HasDecryptedPayload(raw) /\ ~HasEmptyLine(raw))
        => (status = "unwrapped" /\ content = raw)

\* a message without any empty line was returned as it is, as unwrapped
C25_Witness ==
    /\ ppc = "unwrapped"
    /\ HasDecryptedPayload(raw)
    /\ ~HasEmptyLine(raw)
    /\ status = "unwrapped"
    /\ content = raw

\* ------------------------------------------------------------------ C26

\* the line holds a 'protected-headers=' marker, quoted or not, of any version
MarkerLine(l) ==
    \E i \in 1..Len(l.val) :
        l.val[i] \in {"protected-headers=\"v1\"", "protected-headers=v1",
                      "protected-headers=v12"}

\* the first line with a marker (0: none)
MarkerAt(ls) ==
    IF \E i \in 1..Len(ls) : MarkerLine(ls[i])
    THEN Least({i \in 1..Len(ls) : MarkerLine(ls[i])}) ELSE 0

\* the line is empty or holds white space only
BlankOrSpace(l) == l.k = "blank" \/ (l.k = "cont" /\ \A i \in 1..Len(l.val) : IsSpace(l.val[i]))

\* the first line behind line m that begins with 'Subject:' and has no blank
\* line between line m and itself (0: none)
SubjectAfter(ls, m) ==
    IF \E j \in m + 1..Len(ls) :
          /\ ls[j].k = "hdr" /\ ls[j].name = "Subject"
          /\ \A b \in m + 1..j - 1 : ~BlankOrSpace(ls[b])
    THEN Least({j \in m + 1..Len(ls) : ls[j].k = "hdr" /\ ls[j].name = "Subject"})
    ELSE 0

\* the lines that follow line s at once and begin with a space or tab
FoldedAfter(ls, s) ==
    {j \in s + 1..Len(ls) : \A i \in s + 1..j : ls[i].k = "cont"}

\* the value of line s, extended by a space and the trimmed text of each of
\* the lines in folded, in their order
RECURSIVE Extended(_, _, _)
Extended(ls, value, folded) ==
    IF folded = {} THEN value
    ELSE Extended(ls, value \o <<" ">> \o Strip(ls[Least(folded)].val),
                  folded \ {Least(folded)})

\* what the recovery gives by the claim: nothing, or the decoded value
ClaimedSubject(ls, m) ==
    IF m = 0 \/ SubjectAfter(ls, m) = 0 THEN NotFound
    ELSE Recovered(DecodeRfc2047(Extended(ls, Strip(ls[SubjectAfter(ls, m)].val),
                                          FoldedAfter(ls, SubjectAfter(ls, m)))))

\* C26: the recovery takes the first marker, scans from the line after the
\* marker's line up to the first blank line for a line beginning with
\* 'Subject:', extends its value by each line that follows it at once and
\* begins with a space or tab, joined by one space, and returns it decoded; it
\* gives nothing without a marker, without a line after the marker, and
\* without a Subject: line before the first blank line
C26_ProtectedSubject ==
    ParseDone =>
        ExtractProtectedSubject(ParsedText) = ClaimedSubject(ParsedText, MarkerAt(ParsedText))

\* ------------------------------------------------------------------ C27

\* the parts of the text that was parsed: the nodes of the walk
PartsOf(ls) == {Walk(ParseMessage(ls))[i] : i \in 1..Len(Walk(ParseMessage(ls)))}

\* C27: _decode_payload raises for no part, whatever the part's transfer
\* encoding, charset and payload: it returns text
C27_DecoderNeverRaises ==
    ParseDone => \A part \in PartsOf(ParsedText) : DecodePayload(part).ok

\* ---------------------------------------------------------------- C28

\* len(part.as_string()) of the part at a path
PartSize(m, path) == TextSize(AsString(PartAt(m, path)))

\* the places in msg.walk() of the leaf parts that are neither text/plain nor text/html
NonTextLeaves(m) ==
    {i \in 1..Len(Paths(m)) :
        /\ ~PartAt(m, Paths(m)[i]).multi
        /\ PartAt(m, Paths(m)[i]).ctype \notin {"text/plain", "text/html"}}

\* the part at place i is the largest of them, and the first of the equally large ones
LargestFirst(m, i) ==
    /\ i \in NonTextLeaves(m)
    /\ \A j \in NonTextLeaves(m) :
          /\ PartSize(m, Paths(m)[j]) <= PartSize(m, Paths(m)[i])
          /\ j < i => PartSize(m, Paths(m)[j]) < PartSize(m, Paths(m)[i])

\* two messages differ in the part at place i alone: every other leaf is as it
\* was, every container has its header, its type and its parts' places
ReplacedAt(before, after, i) ==
    /\ Paths(after) = Paths(before)
    /\ PartAt(after, Paths(before)[i]) # PartAt(before, Paths(before)[i])
    /\ \A j \in (1..Len(Paths(before))) \ {i} :
          /\ PartAt(after, Paths(before)[j]).multi = PartAt(before, Paths(before)[j]).multi
          /\ PartAt(after, Paths(before)[j]).ctype = PartAt(before, Paths(before)[j]).ctype
          /\ PartAt(after, Paths(before)[j]).head = PartAt(before, Paths(before)[j]).head
          /\ ~PartAt(before, Paths(before)[j]).multi
                => PartAt(after, Paths(before)[j]) = PartAt(before, Paths(before)[j])

\* C28: each iteration of the loop of strip_large_attachments replaces the
\* largest of the leaf parts that are neither text/plain nor text/html, the
\* first in depth-first pre-order among equally large ones, and no other part:
\* text/plain parts, text/html parts and multipart containers stay
C28_LargestReplaced ==
    [][(ppc = "loop" /\ message' # message)
          => \E i \in 1..Len(Paths(message)) :
                LargestFirst(message, i) /\ ReplacedAt(message, message', i)]_vars

\* one iteration has run on a message whose two largest attachments are equally
\* large, one of them inside a nested container: the first is a placeholder,
\* the second is as it was
C28_Witness ==
    /\ ppc = "loop"
    /\ \E i \in NonTextLeaves(ParseMessage(raw)) :
          \E j \in NonTextLeaves(ParseMessage(raw)) :
             /\ i < j
             /\ Len(Paths(ParseMessage(raw))[i]) = 2
             /\ LargestFirst(ParseMessage(raw), i)
             /\ PartSize(ParseMessage(raw), Paths(ParseMessage(raw))[j])
                   = PartSize(ParseMessage(raw), Paths(ParseMessage(raw))[i])
             /\ ReplacedAt(ParseMessage(raw), message, i)
             /\ PartAt(message, Paths(message)[i]).ctype = "text/plain"

\* ---------------------------------------------------------------- C29

\* how many parts the loop may still replace
StrippableCount(m) == Cardinality(NonTextLeaves(m))

WithinCeiling(m) == TextSize(AsString(m)) <= MaxSize

\* C29: strip_large_attachments terminates on every input: each iteration of
\* its loop starts above the ceiling and leaves one strippable part fewer,
\* leaf type text/plain in its place; the loop is left only within the
\* ceiling or with no strippable part; and the function returns in the end
C29_Terminates ==
    /\ [][(ppc = "loop" /\ ppc' = "loop")
             => /\ ~WithinCeiling(message)
                /\ StrippableCount(message') = StrippableCount(message) - 1
                /\ \E i \in NonTextLeaves(message) :
                      /\ ReplacedAt(message, message', i)
                      /\ ~PartAt(message', Paths(message')[i]).multi
                      /\ PartAt(message', Paths(message')[i]).ctype = "text/plain"]_vars
    /\ [][(ppc = "loop" /\ ppc' = "stripped")
             => WithinCeiling(message) \/ StrippableCount(message) = 0]_vars
    /\ <>(ppc = "stripped")

\* the function has returned after two iterations or more, with no strippable
\* part left and the message still above the ceiling
C29_Witness ==
    /\ ppc = "stripped"
    /\ message # NoMsg
    /\ StrippableCount(ParseMessage(raw)) >= 2
    /\ StrippableCount(message) = 0
    /\ ~WithinCeiling(message)

\* ---------------------------------------------------------------- C30

\* C30: whatever the sequence of confirm_import and confirm_import_new requests
\* and however their checks and creations interleave, no two entries of the
\* store have the same message_id that is not empty
C30_NoSharedMessageId ==
    \A i \in 1..Len(db.entries) :
       \A j \in 1..Len(db.entries) :
          (i # j /\ db.entries[i].message_id # <<>>)
             => db.entries[i].message_id # db.entries[j].message_id
=============================================================================
